---- MODULE Spec2Model ----
(***************************************************************************)
(* Variant-assignment and cache-consistency engine of ab-testing-library.  *)
(*                                                                         *)
(* The model follows packages/ab-testing-library/src/core: the sync queue  *)
(* (storage/syncQueue.ts), the user and variant services                   *)
(* (services/userService.ts, services/variantService.ts), the update       *)
(* listener (services/realtimeListener.ts) and the orchestration entry     *)
(* points (initUserExperimentsAndVariants and friends).                    *)
(*                                                                         *)
(* JavaScript runs one callback at a time, so an action is the code that   *)
(* runs between two suspension points (an await on a remote call or a      *)
(* timer).  A remote call is answered by a later action, which reads or    *)
(* writes the remote store when the answer arrives, or fails.              *)
(***************************************************************************)
EXTENDS Integers, Sequences, FiniteSets, Bags, TLC

(***************************************************************************)
(* Bounds of the model.                                                    *)
(***************************************************************************)
\* sync operations ever appended to the queue in one behaviour
MaxAdds == 2
\* processByType invocations in flight at the same time
MaxProcs == 2
\* clock ticks in one behaviour
MaxTicks == 2
\* calls of the public operations in one behaviour
MaxCalls == 2
\* background refreshUser calls in flight at the same time
MaxRefreshes == 1
\* calls of the variant service and passes awaiting the remote store at the same time
MaxTasks == 2

(***************************************************************************)
(* Program constants.                                                      *)
(***************************************************************************)
MAX_RETRIES == 5
STALENESS_THRESHOLD_MS == 5 * 60 * 1000

\* the clock advances in steps of the staleness threshold, so that an entry
\* can be new, exactly as old as the threshold, and older than it
TickMs == STALENESS_THRESHOLD_MS
StartTime == TickMs

UserIds == {"u1", "u2"}
Emails == {"a@x", "f@x"}
Identities == [id : UserIds, email : Emails]
Keys == {"e1", "e2"}
VariantKeys == {"A", "B"}

\* null: an absent string, an absent identity, an absent timestamp (a
\* timestamp of 0 is as good as none to the code: !timestamp), an absent
\* list under a storage key
Null == "null"
NoUser == [id |-> Null, email |-> Null]
NoTime == 0
Missing == [has |-> FALSE, list |-> <<>>]
Stored(list) == [has |-> TRUE, list |-> list]
\* what window.localStorage holds under a key: no entry, or a text (a string
\* is the sequence of its UTF-16 code units)
NoItem == [has |-> FALSE, text |-> <<>>]
Raw(text) == [has |-> TRUE, text |-> text]
Idle == [pc |-> "idle"]

SyncOperationTypes == {"user", "variant"}

VARIABLES
    now,                    \* Date.now()
    rawItem,                \* localStorage: the raw text stored under the key of the storage checks, or NoItem
    online,                 \* navigator.onLine
    ab_user,                \* localStorage 'ab_user': an identity or NoUser
    ab_user_timestamp,      \* localStorage 'ab_user_timestamp': a time or NoTime
    ab_variants,            \* localStorage 'ab_variants': Stored(a list of UserVariant) or Missing
    ab_variants_timestamp,  \* localStorage 'ab_variants_timestamp': a time or NoTime
    ab_sync_queue,          \* localStorage 'ab_sync_queue': a list of SyncOperation
    remoteUsers,            \* remote table users: id -> email or Null
    remoteVariants,         \* remote table user_variants: <<user_id, experiment_key>> -> variant or Null
    procs,                  \* processByType invocations in flight (a bag: two may be at the same place)
    nextOpId,               \* source of fresh SyncOperation ids
    syncHandlers,           \* the types that have a registered sync handler
    refreshes,              \* userService.refreshUser calls in flight (a bag of user ids)
    tasks,                  \* calls of the variant service, passes of the listener and of initializeUser, awaiting a remote answer (a bag)
    calls,                  \* history: calls of the public operations so far
    ret,                    \* history: the latest call that returned, what it saw and how it ended
    failures,               \* history: failed deliveries of each SyncOperation, by id (saturates at MAX_RETRIES)
    splitsCache,            \* splitUtils cache: the Map of normalised splits, by signature
    hashingConfig,          \* core/config.ts: the hashing configuration in force
    currentAdapter,         \* remoteStorageAdapter.ts: the adapter in force, or Null
    subscriptions,          \* the callbacks registered with adapters and not unsubscribed (a bag of adapters)
    remoteExperiments,      \* remote table experiments: the rows getExperiments() returns
    registry,               \* experimentRegistry: the experiments it holds
    pollers                 \* the polling loops that have a timer or a tick pending (a bag)

storeVars == <<ab_user, ab_user_timestamp, ab_variants, ab_variants_timestamp>>
remoteVars == <<remoteUsers, remoteVariants>>
queueVars == <<ab_sync_queue, procs, nextOpId, syncHandlers, failures>>
histVars == <<calls, ret>>
libVars == <<splitsCache, hashingConfig, currentAdapter, subscriptions, remoteExperiments, registry, pollers>>
vars == <<now, rawItem, libVars, online, storeVars, remoteVars, queueVars, refreshes, tasks, histVars>>

\* ids of the SyncOperations added so far
OpIds == 1..(nextOpId - 1)

(***************************************************************************)
(* Bucketing engine, split normaliser and variant assigner                 *)
(* (variant-assigner/hash.ts, experiments/splitUtils.ts,                   *)
(* variant-assigner/variantAssigner.ts).                                   *)
(*                                                                         *)
(* A string is the sequence of its UTF-16 code units.  A 32-bit hash is    *)
(* kept as two 16-bit halves, because TLC's integers are 32-bit and        *)
(* signed.  A split map is the sequence of its entries in insertion order. *)
(* A weight is an integer when finite is TRUE; otherwise it is the sign of *)
(* a number that is not finite: -1 for -Infinity, 0 for NaN, 1 for         *)
(* Infinity.                                                               *)
(***************************************************************************)
CodeUnits ==
    ("u1" :> <<117, 49>>) @@ ("u2" :> <<117, 50>>) @@
    ("a@x" :> <<97, 64, 120>>) @@ ("f@x" :> <<102, 64, 120>>) @@
    ("e1" :> <<101, 49>>) @@ ("e2" :> <<101, 50>>) @@
    ("ablib" :> <<97, 98, 108, 105, 98>>) @@
    ("ablib-dev" :> <<97, 98, 108, 105, 98, 45, 100, 101, 118>>) @@
    (":" :> <<58>>) @@ ("|" :> <<124>>) @@
    ("A" :> <<65>>) @@ ("B" :> <<66>>) @@ ("C" :> <<67>>) @@
    ("control" :> <<99, 111, 110, 116, 114, 111, 108>>) @@
    ("key" :> <<107, 101, 121>>) @@ ("splits" :> <<115, 112, 108, 105, 116, 115>>)

\* String(version) for the versions in use
DecimalDigits(n) == IF n < 10 THEN <<48 + n>> ELSE <<48 + (n \div 10), 48 + (n % 10)>>

Half == 2 ^ 16

RECURSIVE BitXor(_, _)
BitXor(a, b) ==
    IF a = 0 THEN b
    ELSE IF b = 0 THEN a
    ELSE 2 * BitXor(a \div 2, b \div 2) + ((a + b) % 2)

\* h ^= input.charCodeAt(i); h = Math.imul(h, 16777619), on the halves of h.
\* 16777619 = 256 * 65536 + 403.
FnvStep(h, c) ==
    LET lo == BitXor(h.lo, c)
        p0 == lo * 403
    IN  [hi |-> (h.hi * 403 + lo * 256 + (p0 \div Half)) % Half, lo |-> p0 % Half]

\* hashToBucket: the 32-bit FNV-1a hash h of input; the bucket is h / 2^32.
\* 2166136261 = 33052 * 65536 + 40389.
RECURSIVE FnvFrom(_, _)
FnvFrom(h, input) ==
    IF input = <<>> THEN h ELSE FnvFrom(FnvStep(h, Head(input)), Tail(input))
hashToBucket(input) == FnvFrom([hi |-> 33052, lo |-> 40389], input)

\* hashToBucketWithSalt: `${salt}:${version}:${user.id}${user.email}:${experimentKey}`
hashToBucketWithSalt(user, experimentKey, salt, version) ==
    hashToBucket(CodeUnits[salt] \o CodeUnits[":"] \o DecimalDigits(version) \o CodeUnits[":"]
                 \o CodeUnits[user.id] \o CodeUnits[user.email] \o CodeUnits[":"]
                 \o CodeUnits[experimentKey])

\* a.key.localeCompare(b.key) on the variant keys in use
KeyRank == ("A" :> 1) @@ ("B" :> 2) @@ ("C" :> 3) @@ ("control" :> 4)

RECURSIVE SortByKey(_)
SortByKey(entries) ==
    IF entries = <<>> THEN <<>>
    ELSE LET least == CHOOSE k \in 1..Len(entries) :
                          \A j \in 1..Len(entries) :
                              \/ KeyRank[entries[k].key] < KeyRank[entries[j].key]
                              \/ (KeyRank[entries[k].key] = KeyRank[entries[j].key] /\ k <= j)
         IN <<entries[least]>> \o
            SortByKey(SubSeq(entries, 1, least - 1) \o SubSeq(entries, least + 1, Len(entries)))

RECURSIVE SumWeights(_)
SumWeights(entries) ==
    IF entries = <<>> THEN 0 ELSE Head(entries).weight + SumWeights(Tail(entries))

\* a normalizeSplits whose filter lets negative weights through
normalizeSplits_KeepsNegative(splits) ==
    LET entries == SelectSeq(splits, LAMBDA e : e.finite)
        sum == SumWeights(entries)
        sorted == SortByKey(entries)
    IN  IF entries = <<>> THEN <<[key |-> "control", one |-> TRUE, num |-> 1, sum |-> 1, steps |-> 0]>>
        ELSE IF sum <= 0 THEN <<[key |-> entries[1].key, one |-> TRUE, num |-> 1, sum |-> 1, steps |-> 0]>>
        ELSE [i \in 1..Len(sorted) |->
                LET num == SumWeights(SubSeq(sorted, 1, i)) IN
                [key |-> sorted[i].key,
                 one |-> (i = Len(sorted)) \/ (num = sum),
                 num |-> num, sum |-> sum, steps |-> i]]

\* normalizeSplits.  A bucket's boundary is `cumulative`: the exact value 1
\* when one is TRUE, and otherwise num / sum + steps * epsilon, num being the
\* weights accumulated so far and epsilon = 1e-10 (the clamp min(1, ...) then
\* changes nothing below the last bucket unless the weights before it are the
\* whole sum, which makes the boundary 1 + steps * epsilon clamped to 1).
normalizeSplits(splits) ==
    LET entries == SelectSeq(splits, LAMBDA e : e.finite /\ e.weight >= 0)
        sum == SumWeights(entries)
        sorted == SortByKey(entries)
    IN  IF entries = <<>> THEN <<[key |-> "control", one |-> TRUE, num |-> 1, sum |-> 1, steps |-> 0]>>
        ELSE IF sum <= 0 THEN <<[key |-> entries[1].key, one |-> TRUE, num |-> 1, sum |-> 1, steps |-> 0]>>
        ELSE [i \in 1..Len(sorted) |->
                LET num == SumWeights(SubSeq(sorted, 1, i)) IN
                [key |-> sorted[i].key,
                 one |-> (i = Len(sorted)) \/ (num = sum),
                 num |-> num, sum |-> sum, steps |-> i]]

\* r < b.cumulative for r = h / 2^32: h * sum < num * 2^32 + steps * sum * epsilon * 2^32,
\* where epsilon * 2^32 = 0.4294967296; sums and steps are small, so the last
\* term is below 65536 and its integer part decides.
BelowBoundary(h, b) ==
    \/ b.one
    \/ LET slack == (b.steps * b.sum * 4294) \div 10000
           low == h.lo * b.sum
           high == h.hi * b.sum + (low \div Half)
       IN  \/ high < b.num * Half
           \/ (high = b.num * Half /\ (low % Half) <= slack)

\* variantAssigner.assign: the first bucket whose boundary exceeds r, else the last
assign(user, experimentKey, splits, salt, version) ==
    LET buckets == normalizeSplits(splits)
        h == hashToBucketWithSalt(user, experimentKey, salt, version)
        hits == {i \in 1..Len(buckets) : BelowBoundary(h, buckets[i])}
    IN  IF hits = {} THEN buckets[Len(buckets)].key
        ELSE buckets[CHOOSE i \in hits : \A j \in hits : i <= j].key

\* the hashing configuration (variant-assigner/config.ts) and the splits of
\* the experiments in use
DefaultSalt == "ablib-dev"
DefaultVersion == 1
EvenSplits == <<[key |-> "A", weight |-> 1, finite |-> TRUE], [key |-> "B", weight |-> 1, finite |-> TRUE]>>

\* the splits of an experiment after they were changed remotely
SkewedSplits == <<[key |-> "A", weight |-> 1, finite |-> TRUE], [key |-> "B", weight |-> 0, finite |-> TRUE]>>
SplitSets == {EvenSplits, SkewedSplits}

\* assign for every identity, experiment and splits in use, computed once
AssignTableFor ==
    [splits \in SplitSets |->
        [user \in Identities, k \in Keys |-> assign(user, k, splits, DefaultSalt, DefaultVersion)]]

\* assign for every identity and experiment in use, computed once
AssignTable ==
    [user \in Identities, k \in Keys |-> assign(user, k, EvenSplits, DefaultSalt, DefaultVersion)]

\* the adapters handed to initializeLibrary: what their subscribeExperiments
\* does ("absent" when the adapter has none)
Adapters ==
    [name : {"a1", "a2"},
     subscribeExperiments : {"subscribes", "absent", "RealtimeConnectionError", "Error"}]
ServiceAdapter == [name |-> "a1", subscribeExperiments |-> "subscribes"]
NoAdapter == [name |-> Null, subscribeExperiments |-> "absent"]

\* the rows of the experiments table: one experiment, e1, with its splits
ExperimentRows(splits) == <<[key |-> "e1", splits |-> splits]>>

\* the module state of the library after initializeLibrary({adapter: ServiceAdapter})
InitLib ==
    /\ splitsCache = <<>>
    /\ hashingConfig = [salt |-> DefaultSalt, version |-> DefaultVersion]
    /\ currentAdapter = ServiceAdapter
    /\ subscriptions = SetToBag({ServiceAdapter})
    /\ remoteExperiments = ExperimentRows(EvenSplits)
    /\ registry = <<>>
    /\ pollers = EmptyBag

(***************************************************************************)
(* Sync queue (storage/syncQueue.ts).                                      *)
(***************************************************************************)

\* the record add() builds and appends
\* (its timestamp field, which nothing reads, is left out)
NewSyncOp(id, type, operation, data) ==
    [id |-> id, type |-> type, operation |-> operation, data |-> data, retries |-> 0]

\* add(): queue.push(syncOp); saveQueue(queue)
QueueAdd(q, id, type, operation, data) ==
    Append(q, NewSyncOp(id, type, operation, data))

\* a remove that drops the record at the head of the queue
QueueRemove_DropsHead(q, id) == IF q = <<>> THEN q ELSE Tail(q)

\* remove(): queue.filter(op => op.id !== operationId)
QueueRemove(q, id) == SelectSeq(q, LAMBDA op : op.id # id)

\* a getByType that does not filter
GetByType_All(q, type) == q

\* getByType(): queue.filter(op => op.type === type)
GetByType(q, type) == SelectSeq(q, LAMBDA op : op.type = type)

\* what processByType and the handlers read of a queued record they iterate
\* over: its id, type, action and payload (never its retries)
Snapshot(ops) ==
    [k \in 1..Len(ops) |->
        [id |-> ops[k].id, type |-> ops[k].type, operation |-> ops[k].operation,
         data |-> ops[k].data]]

\* queue.findIndex(op => op.id === operation.id), 0 when absent
FindIndex(q, id) ==
    IF \E k \in 1..Len(q) : q[k].id = id
    THEN CHOOSE k \in 1..Len(q) : q[k].id = id /\ \A j \in 1..(k - 1) : q[j].id # id
    ELSE 0

InQueue(q, id) == FindIndex(q, id) > 0

\* the catch block of processOperation: the queue that is persisted after a
\* failed delivery of operation id.  The counter is incremented on a copy;
\* below the ceiling the copy is saved, at the ceiling the record is spliced
\* out of the copy and the copy is not saved.
QueueAfterFailure(q, id) ==
    LET k == FindIndex(q, id) IN
    IF k = 0 THEN q
    ELSE IF q[k].retries + 1 >= MAX_RETRIES
         THEN q
         ELSE [q EXCEPT ![k].retries = @ + 1]

\* processByType after a failed processOperation: does it wait for the backoff delay?
WaitsBackoff(q, id) ==
    LET k == FindIndex(q, id) IN k > 0 /\ q[k].retries < MAX_RETRIES

\* a processByType loop whose processOperation does not look at connectivity
LoopFrom_IgnoresOffline(type, ops, i, rest, q, on) ==
    IF i > Len(ops) THEN Idle
    ELSE [pc |-> "sync", type |-> type, ops |-> ops, i |-> i, rest |-> rest]

\* the loop of processByType from operation i on: the next place where the
\* invocation suspends, or Idle when the loop ends.  Online, processOperation
\* calls syncFn and awaits it; offline it returns false and the loop waits for
\* the backoff delay when the record is still queued.
RECURSIVE LoopFrom(_, _, _, _, _, _)
LoopFrom(type, ops, i, rest, q, on) ==
    IF i > Len(ops) THEN Idle
    ELSE IF on THEN [pc |-> "sync", type |-> type, ops |-> ops, i |-> i, rest |-> rest]
    ELSE IF WaitsBackoff(q, ops[i].id)
         THEN [pc |-> "backoff", type |-> type, ops |-> ops, i |-> i, rest |-> rest]
         ELSE LoopFrom(type, ops, i + 1, rest, q, on)

\* processByType(type, handler) for each type of types in turn, as
\* processAllOperations awaits them one after the other; a single
\* processByType call is the case of one type
RECURSIVE Launch(_, _, _)
Launch(types, q, on) ==
    IF types = <<>> \/ ~on THEN Idle
    ELSE LET p == LoopFrom(Head(types), Snapshot(GetByType(q, Head(types))), 1, Tail(types), q, on) IN
         IF p = Idle THEN Launch(Tail(types), q, on) ELSE p

\* a flush that processes the first type of the queue and no other
Flush_FirstTypeOnly(types, q, on) ==
    IF types = <<>> \/ ~on \/ Head(types) \notin syncHandlers THEN Idle
    ELSE LoopFrom(Head(types), Snapshot(GetByType(q, Head(types))), 1, <<>>, q, on)

\* the loop of processAllOperations over the types it has grouped the queue
\* by: a type is processed with the handler registered for it, and skipped
\* when it has none
RECURSIVE Flush(_, _, _)
Flush(types, q, on) ==
    IF types = <<>> \/ ~on THEN Idle
    ELSE IF Head(types) \notin syncHandlers THEN Flush(Tail(types), q, on)
    ELSE LET p == LoopFrom(Head(types), Snapshot(GetByType(q, Head(types))), 1, Tail(types), q, on) IN
         IF p = Idle THEN Flush(Tail(types), q, on) ELSE p

\* where an invocation goes after it is done with operation p.i
Continue(p, q, on) ==
    LET nxt == LoopFrom(p.type, p.ops, p.i + 1, p.rest, q, on) IN
    IF nxt = Idle THEN Flush(p.rest, q, on) ELSE nxt

\* processAllOperations: the types of the queued records, in order of first appearance
RECURSIVE TypesOf(_)
TypesOf(q) ==
    IF q = <<>> THEN <<>>
    ELSE LET t == Head(q).type IN
         <<t>> \o TypesOf(SelectSeq(Tail(q), LAMBDA op : op.type # t))

\* the invocations in flight
Running == BagToSet(procs)
ProcCount == BagCardinality(procs)

\* invocation p moves on to the place nxt (Idle: it returns)
Moved(ps, p, nxt) ==
    LET left == ps (-) SetToBag({p}) IN
    IF nxt = Idle THEN left ELSE left (+) SetToBag({nxt})

\* a background processByType is started at the place p (Idle: it returned at once)
Spawn(ps, p) == IF p = Idle THEN ps ELSE ps (+) SetToBag({p})

Min(a, b) == IF a < b THEN a ELSE b

\* updateTimestamp() / updateUserTimestamp(): setItem(key, Date.now())
Stamp(t) == t

\* syncVariantOperation / syncUserOperation after their remote save succeeded:
\* the remote row is upserted and the staleness timestamp of the type renewed
DeliverRemoteVariants(op, rv) ==
    IF op.type = "variant"
    THEN [rv EXCEPT ![<<op.data.userId, op.data.experimentKey>>] = op.data.variant]
    ELSE rv
DeliverRemoteUsers(op, ru) ==
    IF op.type = "user" THEN [ru EXCEPT ![op.data.id] = op.data.email] ELSE ru

(***************************************************************************)
(* Actions of the sync queue.                                              *)
(***************************************************************************)

\* syncQueue.add(type, operation, data), called directly
Add(type, operation, data) ==
    /\ nextOpId <= MaxAdds
    /\ ab_sync_queue' = QueueAdd(ab_sync_queue, nextOpId, type, operation, data)
    /\ nextOpId' = nextOpId + 1
    /\ syncHandlers' = syncHandlers
    /\ failures' = Append(failures, 0)
    /\ UNCHANGED <<now, rawItem, libVars, online, storeVars, remoteVars, procs, refreshes, tasks, histVars>>

\* the payloads the services enqueue: saveUserVariantForExperiment adds
\* variant/update, saveUser adds user/create and updateUser adds user/update
AddVariantOp ==
    \E k \in Keys :
        Add("variant", "update", [userId |-> "u1", experimentKey |-> k, variant |-> "A"])

AddUserOp ==
    Add("user", "create", [id |-> "u1", email |-> "a@x"])

\* syncQueue.processByType(type, handler) is called (processPendingSyncs,
\* processPendingUserSyncs)
ProcessByType(type) ==
    /\ ProcCount < MaxProcs
    /\ Launch(<<type>>, ab_sync_queue, online) # Idle
    /\ procs' = Spawn(procs, Launch(<<type>>, ab_sync_queue, online))
    /\ UNCHANGED <<now, rawItem, libVars, online, storeVars, remoteVars, ab_sync_queue, nextOpId, syncHandlers, failures, refreshes, tasks, histVars>>

\* the remote save of the handler succeeds: processOperation removes the record
SyncSucceeds(p) ==
    /\ p.pc = "sync"
    /\ LET op == p.ops[p.i]
           q == QueueRemove(ab_sync_queue, op.id) IN
       /\ remoteVariants' = DeliverRemoteVariants(op, remoteVariants)
       /\ remoteUsers' = DeliverRemoteUsers(op, remoteUsers)
       /\ ab_variants_timestamp' = IF op.type = "variant" THEN Stamp(now) ELSE ab_variants_timestamp
       /\ ab_user_timestamp' = IF op.type = "user" THEN Stamp(now) ELSE ab_user_timestamp
       /\ ab_sync_queue' = q
       /\ procs' = Moved(procs, p, Continue(p, q, online))
    /\ UNCHANGED <<now, rawItem, libVars, online, ab_user, ab_variants, nextOpId, syncHandlers, failures, refreshes, tasks, histVars>>

\* the remote save of the handler fails: the catch block of processOperation,
\* then the check of processByType that decides on the backoff wait
SyncFails(p) ==
    /\ p.pc = "sync"
    /\ LET op == p.ops[p.i]
           q == QueueAfterFailure(ab_sync_queue, op.id) IN
       /\ ab_sync_queue' = q
       /\ failures' = [failures EXCEPT ![op.id] = Min(@ + 1, MAX_RETRIES)]
       /\ procs' = Moved(procs, p, IF WaitsBackoff(q, op.id)
                                    THEN [p EXCEPT !.pc = "backoff"]
                                    ELSE Continue(p, q, online))
    /\ UNCHANGED <<now, rawItem, libVars, online, storeVars, remoteVars, nextOpId, syncHandlers, refreshes, tasks, histVars>>

\* the backoff timer of processByType fires
BackoffDone(p) ==
    /\ p.pc = "backoff"
    /\ procs' = Moved(procs, p, Continue(p, ab_sync_queue, online))
    /\ UNCHANGED <<now, rawItem, libVars, online, storeVars, remoteVars, ab_sync_queue, nextOpId, syncHandlers, failures, refreshes, tasks, histVars>>

\* the browser goes offline
GoOffline ==
    /\ online
    /\ online' = FALSE
    /\ UNCHANGED <<now, rawItem, libVars, storeVars, remoteVars, queueVars, refreshes, tasks, histVars>>

\* the browser comes back online: the 'online' listener runs processAllOperations
GoOnline ==
    /\ ~online
    /\ online' = TRUE
    /\ ProcCount < MaxProcs
    /\ procs' = Spawn(procs, Flush(TypesOf(ab_sync_queue), ab_sync_queue, TRUE))
    /\ UNCHANGED <<now, rawItem, libVars, storeVars, remoteVars, ab_sync_queue, nextOpId, syncHandlers, failures, refreshes, tasks, histVars>>

\* time passes
Tick ==
    /\ now < StartTime + MaxTicks * TickMs
    /\ now' = now + TickMs
    /\ rawItem' = rawItem
    /\ UNCHANGED libVars
    /\ UNCHANGED <<online, storeVars, remoteVars, queueVars, refreshes, tasks, histVars>>

(***************************************************************************)
(* User service (services/userService.ts).                                 *)
(***************************************************************************)

\* a staleness test that counts a timestamp exactly as old as the threshold as stale
IsStaleAt_AtThreshold(timestamp, t) ==
    \/ timestamp = NoTime
    \/ t - timestamp >= STALENESS_THRESHOLD_MS

\* isStale() / isUserStale(): no timestamp, or one older than the threshold
IsStaleAt(timestamp, t) ==
    \/ timestamp = NoTime
    \/ t - timestamp > STALENESS_THRESHOLD_MS

isUserStale == IsStaleAt(ab_user_timestamp, now)

\* a getUser that starts the refresh without looking at the identity read
StartsRefresh_WithoutUser(user, stale) == stale

\* getUser(): a cached identity whose timestamp is stale starts refreshUser(user.id)
\* in the background; the cached value is returned at once either way
StartsRefresh(user, stale) == user # NoUser /\ stale

RefreshesAfterGetUser ==
    IF StartsRefresh(ab_user, isUserStale)
    THEN refreshes (+) SetToBag({ab_user.id})
    ELSE refreshes

\* the bound on the refreshes in flight
MayGetUser == StartsRefresh(ab_user, isUserStale) => BagCardinality(refreshes) < MaxRefreshes

\* a public operation is called (MayCall bounds the calls of one behaviour)
MayCall == calls < MaxCalls
\* a call returns: the history records it
Returned(op, more) == [n |-> ret.n + 1, op |-> op] @@ more

\* a service write that starts processByType before it adds its record
EnqueueAndProcess_ProcessFirst(type, operation, data) ==
    /\ ab_sync_queue' = QueueAdd(ab_sync_queue, nextOpId, type, operation, data)
    /\ nextOpId' = nextOpId + 1
    /\ syncHandlers' = syncHandlers
    /\ failures' = Append(failures, 0)
    /\ procs' = Spawn(procs, Launch(<<type>>, ab_sync_queue, online))

\* syncQueue.add(...) followed by the background processByType of the same
\* type, as the services call them: processByType runs up to its first await
\* within the caller, so it sees the record just added
EnqueueAndProcess(type, operation, data) ==
    LET q == QueueAdd(ab_sync_queue, nextOpId, type, operation, data) IN
    /\ ab_sync_queue' = q
    /\ nextOpId' = nextOpId + 1
    /\ syncHandlers' = syncHandlers
    /\ failures' = Append(failures, 0)
    /\ procs' = Spawn(procs, Launch(<<type>>, q, online))

\* userService.getUser()
GetUser ==
    /\ MayCall
    /\ MayGetUser
    /\ refreshes' = RefreshesAfterGetUser
    /\ calls' = calls + 1
    /\ ret' = Returned("getUser", [user |-> ab_user])
    /\ UNCHANGED <<now, rawItem, libVars, online, storeVars, remoteVars, queueVars, tasks>>

\* refreshUser: the remote getUser answers with the row of the user (or with
\* none); a row replaces the cached identity and renews its timestamp
RefreshSucceeds(userId) ==
    /\ BagIn(userId, refreshes)
    /\ refreshes' = refreshes (-) SetToBag({userId})
    /\ IF remoteUsers[userId] # Null
       THEN /\ ab_user' = [id |-> userId, email |-> remoteUsers[userId]]
            /\ ab_user_timestamp' = Stamp(now)
       ELSE UNCHANGED <<ab_user, ab_user_timestamp>>
    /\ UNCHANGED <<now, rawItem, libVars, online, ab_variants, ab_variants_timestamp, remoteVars, queueVars, tasks, histVars>>

\* refreshUser: the remote getUser fails; the failure is logged
RefreshFails(userId) ==
    /\ BagIn(userId, refreshes)
    /\ refreshes' = refreshes (-) SetToBag({userId})
    /\ UNCHANGED <<now, rawItem, libVars, online, storeVars, remoteVars, queueVars, tasks, histVars>>

\* saveUser(user): the identity is written, the variant cache removed, the
\* timestamp renewed, then the record is queued and delivery started
DoSaveUser(user) ==
    /\ ab_user' = user
    /\ ab_variants' = Missing
    /\ ab_user_timestamp' = Stamp(now)
    /\ EnqueueAndProcess("user", "create", user)
    /\ UNCHANGED ab_variants_timestamp

MaySpawn == BagCardinality(procs) < MaxProcs

SaveUser(user) ==
    /\ MayCall
    /\ MaySpawn
    /\ DoSaveUser(user)
    /\ calls' = calls + 1
    /\ ret' = Returned("saveUser", [arg |-> user, result |-> "ok"])
    /\ UNCHANGED <<now, rawItem, libVars, online, remoteVars, refreshes, tasks>>

\* updateUser(user): how the two guards on the identity returned by getUser() decide
UpdateUserOutcome_NoInitCheck(currentUser, user) ==
    IF currentUser # NoUser /\ currentUser.id # user.id THEN "UserIdMismatchError" ELSE "ok"
UpdateUserOutcome_NoIdCheck(currentUser, user) ==
    IF currentUser = NoUser THEN "UserNotInitializedError" ELSE "ok"
UpdateUserOutcome(currentUser, user) ==
    IF currentUser = NoUser THEN "UserNotInitializedError"
    ELSE IF currentUser.id # user.id THEN "UserIdMismatchError"
    ELSE "ok"

\* updateUser(user): getUser(), the two guards, then the write, the timestamp,
\* the queued record and the start of its delivery
UpdateUser(user) ==
    /\ MayCall
    /\ MayGetUser
    /\ refreshes' = RefreshesAfterGetUser
    /\ calls' = calls + 1
    /\ LET outcome == UpdateUserOutcome(ab_user, user) IN
       /\ ret' = Returned("updateUser", [arg |-> user, result |-> outcome])
       /\ IF outcome = "ok"
          THEN /\ MaySpawn
               /\ ab_user' = user
               /\ ab_user_timestamp' = Stamp(now)
               /\ EnqueueAndProcess("user", "update", user)
               /\ UNCHANGED <<ab_variants, ab_variants_timestamp>>
          ELSE UNCHANGED <<storeVars, queueVars>>
    /\ UNCHANGED <<now, rawItem, libVars, online, remoteVars, tasks>>


(***************************************************************************)
(* Variant service (services/variantService.ts).                           *)
(***************************************************************************)

\* a row of the variant list (updated_at is never read by the library)
UserVariant(userId, experimentKey, variant) ==
    [user_id |-> userId, experiment_key |-> experimentKey, variant |-> variant]

\* variants.find(v => v.experiment_key === experimentKey): the index of the
\* first match, 0 when there is none
FindByKey(list, experimentKey) ==
    IF \E k \in 1..Len(list) : list[k].experiment_key = experimentKey
    THEN CHOOSE k \in 1..Len(list) :
            /\ list[k].experiment_key = experimentKey
            /\ \A j \in 1..(k - 1) : list[j].experiment_key # experimentKey
    ELSE 0

\* variants.findIndex(v => v.experiment_key === experimentKey && v.user_id === userId)
FindIndexOfPair_Never(list, userId, experimentKey) == 0
FindIndexOfPair(list, userId, experimentKey) ==
    IF \E k \in 1..Len(list) : list[k].experiment_key = experimentKey /\ list[k].user_id = userId
    THEN CHOOSE k \in 1..Len(list) :
            /\ list[k].experiment_key = experimentKey /\ list[k].user_id = userId
            /\ \A j \in 1..(k - 1) : ~(list[j].experiment_key = experimentKey /\ list[j].user_id = userId)
    ELSE 0

\* the row replaces the entry of its pair in place, or is appended
Merge(list, row) ==
    LET k == FindIndexOfPair(list, row.user_id, row.experiment_key) IN
    IF k > 0 THEN [list EXCEPT ![k] = row] ELSE Append(list, row)

\* isStale() of the variant cache
isStale == IsStaleAt(ab_variants_timestamp, now)

\* the order in which the remote table lists its rows
KeyOrder == <<"e1", "e2">>

\* adapter.getVariants(userId): the rows of the user in the remote table
RemoteRows(rv, userId) ==
    LET ks == SelectSeq(KeyOrder, LAMBDA k : rv[<<userId, k>>] # Null) IN
    [j \in 1..Len(ks) |-> UserVariant(userId, ks[j], rv[<<userId, ks[j]>>])]

\* getVariantsByUserId: the cached list is served without a remote call
ServesLocally_Never(local, stale) == FALSE
ServesLocally(local, stale) == local.has /\ Len(local.list) > 0 /\ ~stale

\* getVariantsByUserId, catch block: is there local data to fall back on?
HasLocalFallback_Never(local) == FALSE
HasLocalFallback(local) == local.has /\ Len(local.list) > 0

\* getVariantsByUserId after the remote call was answered: what it returns
\* and whether it writes the rows to the cache
VariantsOutcome(local, answer, rows) ==
    IF answer = "rows"
    THEN [result |-> "ok", value |-> rows, writes |-> Len(rows) > 0]
    ELSE IF answer = "null"
    THEN [result |-> "null", value |-> <<>>, writes |-> FALSE]
    ELSE IF HasLocalFallback(local)
    THEN [result |-> "ok", value |-> local.list, writes |-> FALSE]
    ELSE [result |-> "VariantOperationError", value |-> <<>>, writes |-> FALSE]

\* the answers of the remote store to getVariants and to getVariant
VariantsAnswers == {"rows", "null", "throws"}
VariantAnswers == {"row", "throws"}

\* the experiment lists a notification or getExperiments() delivers
ExperimentLists == {<<>>, <<"e1">>, <<"e2">>, <<"e1", "e2">>}

\* a call or pass at its place: op is the operation, pc the remote call it
\* awaits, exps and splits the experiments of the pass (their keys and the
\* splits they came with), local and stale what the service call in progress read from the
\* cache, variants the array the pass works on, i the experiment of the loop;
\* fetched and log are history: the list getVariantsByUserId returned and,
\* in order, where it came from, the single-record lookups with what they
\* returned, the remote calls that failed and the saves of the pass so far
NewTask(op, user, exps, key) ==
    [op |-> op, pc |-> "variants", user |-> user, exps |-> exps, key |-> key,
     local |-> ab_variants, stale |-> isStale, variants |-> <<>>, i |-> 1,
     splits |-> EvenSplits, fetched |-> <<>>, log |-> <<>>]

Event(e, key, val) == [e |-> e, key |-> key, val |-> val]

\* saveUserVariantForExperiment: the list it writes to the cache
SavedList(list, userId, experimentKey, variant) ==
    Merge(list, UserVariant(userId, experimentKey, variant))

(***************************************************************************)
(* The assignment pass of the realtime listener                            *)
(* (services/realtimeListener.ts) and of initializeUser                    *)
(* (initUserExperimentsAndVariants).                                       *)
(***************************************************************************)

\* history: getUserVariantByExperimentLey(user.id, key) returned val to the pass
Looked(t, key, val) == [t EXCEPT !.log = Append(@, Event("lookup", key, val))]

\* variants.push(remoteVariant), and on to the next experiment
Adopt(t, row) == [t EXCEPT !.variants = Append(@, row), !.i = @ + 1]

\* const variant = variants.find(v => exp.key === v.experiment_key); if (variant) continue
HasVariant_Never(variants, key) == FALSE
HasVariant(variants, key) == FindByKey(variants, key) > 0

\* the loop over the experiments from t.i on, up to the next remote call:
\* an experiment found in variants is skipped; for the others
\* getUserVariantByExperimentLey serves a cached entry when the cache is fresh
\* and calls the remote store otherwise.  list and fresh are the cache as the
\* step has left it.
RECURSIVE RunLoop(_, _, _)
RunLoop(t, list, fresh) ==
    IF t.i > Len(t.exps) THEN [t EXCEPT !.pc = "final"]
    ELSE LET key == t.exps[t.i] IN
         IF HasVariant(t.variants, key)
         THEN RunLoop([t EXCEPT !.i = @ + 1], list, fresh)
         ELSE IF FindByKey(list, key) > 0 /\ fresh
         THEN LET row == list[FindByKey(list, key)] IN
              RunLoop(Adopt(Looked(t, key, row.variant), row), list, fresh)
         ELSE [t EXCEPT !.pc = "lookup", !.local = Stored(list), !.stale = ~fresh]

\* the guard of the loop
EntersLoop(variants, experiments) == Len(variants) < Len(experiments)

\* the pass once getVariantsByUserId has returned the list variants; from
\* tells where the list came from: "local" (the fresh cache), "rows" (the
\* remote store) or "throws" (the local fallback after a failed remote call)
AfterVariants(t, variants, list, fresh, from) ==
    LET t1 == [t EXCEPT !.variants = variants, !.fetched = variants, !.i = 1,
                        !.log = <<Event("list", Null, from)>>] IN
    IF EntersLoop(variants, t.exps)
    THEN RunLoop(t1, list, fresh)
    ELSE [t1 EXCEPT !.pc = "final"]

\* what a pass leaves in the history when it ends
PassReturned(t, result) ==
    Returned(t.op, [user |-> t.user, exps |-> t.exps, result |-> result,
                    fetched |-> t.fetched, variants |-> t.variants, log |-> t.log])

\* the step of a pass ends at the place t2: it awaits a single-record lookup,
\* or it is through the loop, writes its array to 'ab_variants' and returns.
\* others are the calls in flight besides this one, cache and stamp the
\* variant cache and its timestamp as the service calls of the step left them.
PassMoves(others, t2, cache, stamp) ==
    /\ ab_variants_timestamp' = stamp
    /\ IF t2.pc = "final"
       THEN /\ ab_variants' = Stored(t2.variants)
            /\ tasks' = others
            /\ ret' = PassReturned(t2, "ok")
       ELSE /\ ab_variants' = cache
            /\ tasks' = others (+) SetToBag({t2})
            /\ UNCHANGED ret

\* the pass ends without its final write (an early return, or an error that
\* the listener logs and initializeUser passes on)
PassEnds(others, t, result) ==
    /\ tasks' = others
    /\ ret' = PassReturned(t, result)

\* the bound on the calls in flight
MayAwait == BagCardinality(tasks) < MaxTasks

\* getVariantsByUserId(user.id) as the first call of a pass: served from the
\* cache, or the remote call is started
PassGetsVariantsFrom(others, t) ==
    IF ServesLocally(ab_variants, isStale)
    THEN PassMoves(others, AfterVariants(t, ab_variants.list, ab_variants.list, TRUE, "local"),
                   ab_variants, ab_variants_timestamp)
    ELSE /\ tasks' = others (+) SetToBag({t})
         /\ UNCHANGED <<ab_variants, ab_variants_timestamp, ret>>

\* the listener callback runs for a notification with the experiment list exps
ListenerNotify(exps, splits) ==
    /\ MayCall
    /\ MayGetUser
    /\ MayAwait
    /\ calls' = calls + 1
    /\ refreshes' = RefreshesAfterGetUser
    /\ IF ab_user = NoUser
       THEN /\ ret' = Returned("listener", [user |-> NoUser, exps |-> exps, result |-> "no user",
                                            fetched |-> <<>>, variants |-> <<>>, log |-> <<>>])
            /\ UNCHANGED <<ab_variants, ab_variants_timestamp, tasks>>
       ELSE PassGetsVariantsFrom(tasks, [NewTask("listener", ab_user, exps, Null) EXCEPT !.splits = splits])
    /\ UNCHANGED <<now, rawItem, libVars, online, ab_user, ab_user_timestamp, remoteVars, queueVars>>

\* initializeUser(user): saveUser, then the remote getExperiments is awaited
InitializeUser(user) ==
    /\ MayCall
    /\ MaySpawn
    /\ MayAwait
    /\ calls' = calls + 1
    /\ DoSaveUser(user)
    /\ tasks' = tasks (+) SetToBag({[NewTask("init", user, <<>>, Null) EXCEPT
                                        !.pc = "experiments", !.local = Missing, !.stale = TRUE]})
    /\ UNCHANGED <<now, rawItem, libVars, online, remoteVars, refreshes, ret>>

\* getExperiments() is answered with the list exps
ExperimentsAnswered(t, exps, splits) ==
    /\ t.pc = "experiments"
    /\ LET t1 == [NewTask("init", t.user, exps, Null) EXCEPT !.pc = "variants", !.splits = splits] IN
       PassGetsVariantsFrom(tasks (-) SetToBag({t}), t1)
    /\ UNCHANGED <<now, rawItem, libVars, online, ab_user, ab_user_timestamp, remoteVars, queueVars, refreshes, calls>>

\* getExperiments() fails: initializeUser rejects with GetExperimentsError
ExperimentsFail(t) ==
    /\ t.pc = "experiments"
    /\ PassEnds(tasks (-) SetToBag({t}), t, "GetExperimentsError")
    /\ UNCHANGED <<now, rawItem, libVars, online, storeVars, remoteVars, queueVars, refreshes, calls>>

\* is the call in flight a pass (or a direct call of the service)?
IsPass(t) == t.op \in {"listener", "init"}

\* getVariantsByUserId(userId) called on its own
GetVariantsByUserId(userId) ==
    /\ MayCall
    /\ MayAwait
    /\ calls' = calls + 1
    /\ IF ServesLocally(ab_variants, isStale)
       THEN /\ ret' = Returned("getVariants", [user |-> userId, local |-> ab_variants, stale |-> isStale,
                                               answer |-> "none", result |-> "ok", value |-> ab_variants.list])
            /\ UNCHANGED tasks
       ELSE /\ tasks' = tasks (+) SetToBag({NewTask("getVariants", [id |-> userId, email |-> Null], <<>>, Null)})
            /\ UNCHANGED ret
    /\ UNCHANGED <<now, rawItem, libVars, online, storeVars, remoteVars, queueVars, refreshes>>

\* the remote getVariants of a getVariantsByUserId call answers: with the rows
\* of the user, with null (the adapter swallowed an error), or it throws
VariantsAnswered(t, answer) ==
    /\ t.pc = "variants"
    /\ LET others == tasks (-) SetToBag({t})
           out == VariantsOutcome(t.local, answer, RemoteRows(remoteVariants, t.user.id))
           cache == IF out.writes THEN Stored(out.value) ELSE ab_variants
           stamp == IF out.writes THEN Stamp(now) ELSE ab_variants_timestamp
       IN  IF ~IsPass(t)
           THEN /\ ab_variants' = cache
                /\ ab_variants_timestamp' = stamp
                /\ tasks' = others
                /\ ret' = Returned("getVariants", [user |-> t.user.id, local |-> t.local, stale |-> t.stale,
                                                   answer |-> answer, result |-> out.result, value |-> out.value])
           ELSE IF out.result = "ok"
           THEN PassMoves(others, AfterVariants(t, out.value, cache.list, ~IsStaleAt(stamp, now), answer),
                          cache, stamp)
           ELSE /\ PassEnds(others, t, out.result)
                /\ UNCHANGED <<ab_variants, ab_variants_timestamp>>
    /\ UNCHANGED <<now, rawItem, libVars, online, ab_user, ab_user_timestamp, remoteVars, queueVars, refreshes, calls>>

\* saveUserVariantForExperiment(userId, experimentKey, variant) called on its own
SaveUserVariantForExperiment(userId, experimentKey, variant) ==
    /\ MayCall
    /\ MaySpawn
    /\ calls' = calls + 1
    /\ ab_variants' = Stored(SavedList(ab_variants.list, userId, experimentKey, variant))
    /\ ab_variants_timestamp' = Stamp(now)
    /\ EnqueueAndProcess("variant", "update",
                         [userId |-> userId, experimentKey |-> experimentKey, variant |-> variant])
    /\ ret' = Returned("saveVariant", [user |-> userId, key |-> experimentKey, variant |-> variant,
                                       write |-> "ok", result |-> "ok"])
    /\ UNCHANGED <<now, rawItem, libVars, online, ab_user, ab_user_timestamp, remoteVars, refreshes, tasks>>

\* a getVariant that returns savedVariant?.variant as it is
variantOrNull_Optional(found, variant) == IF found THEN variant ELSE "undefined"

\* savedVariant?.variant ?? null: found tells whether the variant service
\* returned a record, variant is the field of the record
variantOrNull(found, variant) ==
    LET optional == IF found THEN variant ELSE "undefined"
    IN  IF optional \in {"undefined", Null} THEN Null ELSE optional

\* getVariant(experimentKey) of the library: getUser(), then
\* getUserVariantByExperimentLey(user.id, experimentKey), served from a fresh
\* cache entry or by the remote store
GetVariant(experimentKey) ==
    /\ MayCall
    /\ MayGetUser
    /\ MayAwait
    /\ calls' = calls + 1
    /\ refreshes' = RefreshesAfterGetUser
    /\ LET k == FindByKey(ab_variants.list, experimentKey) IN
       IF ab_user = NoUser
       THEN /\ ret' = Returned("getVariant", [key |-> experimentKey, result |-> "InitializationError", value |-> Null])
            /\ UNCHANGED tasks
       ELSE IF k > 0 /\ ~isStale
       THEN /\ ret' = Returned("getVariant", [key |-> experimentKey, result |-> "ok",
                                              value |-> variantOrNull(TRUE, ab_variants.list[k].variant)])
            /\ UNCHANGED tasks
       ELSE /\ tasks' = tasks (+) SetToBag({[NewTask("getVariant", ab_user, <<>>, experimentKey)
                                              EXCEPT !.pc = "lookup",
                                                     !.local = Stored(ab_variants.list)]})
            /\ UNCHANGED ret
    /\ UNCHANGED <<now, rawItem, libVars, online, storeVars, remoteVars, queueVars>>

\* the key of the single-record lookup the call awaits
LookupKey(t) == IF IsPass(t) THEN t.exps[t.i] ELSE t.key

\* getUserVariantByExperimentLey once the remote getVariant was answered:
\* "remote" when it returns the row, "null" when there is no row, "local" when
\* the call threw and the list read before has an entry of the key, "throws"
\* when it raises VariantOperationError
LookupOutcome(answer, variant, k) ==
    IF answer = "row" THEN (IF variant # Null THEN "remote" ELSE "null")
    ELSE IF k > 0 THEN "local" ELSE "throws"

\* the pass after its first lookup of an experiment: a variant returned is
\* pushed (continue); on null the pass assigns and saves
PassSaves_Always(outcome) == TRUE
PassSaves(outcome) == outcome = "null"

\* variantAssigner.assign, then saveUserVariantForExperiment, then the second
\* lookup, which the cache (just written and stamped) serves
AssignAndSave(t, list0) ==
    LET key == LookupKey(t)
        variant == AssignTableFor[t.splits][t.user, key]
        list == SavedList(list0, t.user.id, key, variant)
        row == list[FindByKey(list, key)]
        t1 == [t EXCEPT !.log = Append(@, Event("save", key, variant))]
    IN  [list |-> list, variant |-> variant, task |-> Adopt(Looked(t1, key, row.variant), row)]

\* the remote getVariant of a getUserVariantByExperimentLey call answers with
\* the row of the pair (or with none), or it throws
LookupAnswered(t, answer) ==
    /\ t.pc = "lookup"
    /\ LET others == tasks (-) SetToBag({t})
           key == LookupKey(t)
           variant == remoteVariants[<<t.user.id, key>>]
           row == UserVariant(t.user.id, key, variant)
           k == FindByKey(t.local.list, key)
           outcome == LookupOutcome(answer, variant, k)
           cache == IF outcome = "remote" THEN Stored(Merge(t.local.list, row)) ELSE ab_variants
           stamp == IF outcome = "remote" THEN Stamp(now) ELSE ab_variants_timestamp
           got == IF outcome = "remote" THEN row
                  ELSE IF outcome = "local" THEN t.local.list[k]
                  ELSE UserVariant(t.user.id, key, Null)
       IN  IF ~IsPass(t)
           THEN /\ ab_variants' = cache
                /\ ab_variants_timestamp' = stamp
                /\ tasks' = others
                /\ ret' = Returned("getVariant",
                                   [key |-> key,
                                    value |-> variantOrNull(outcome \in {"remote", "local"}, got.variant),
                                    result |-> IF outcome \in {"remote", "local"} THEN "ok"
                                               ELSE IF outcome = "null" THEN "null"
                                               ELSE "VariantOperationError"])
                /\ UNCHANGED queueVars
           ELSE IF outcome = "throws"
           THEN /\ PassEnds(others, t, "VariantOperationError")
                /\ UNCHANGED <<ab_variants, ab_variants_timestamp, queueVars>>
           ELSE IF PassSaves(outcome)
           THEN LET s == AssignAndSave(Looked(t, key, got.variant), cache.list) IN
                /\ MaySpawn
                /\ EnqueueAndProcess("variant", "update",
                                     [userId |-> t.user.id, experimentKey |-> key, variant |-> s.variant])
                /\ PassMoves(others, RunLoop(s.task, s.list, TRUE), Stored(s.list), Stamp(now))
           ELSE LET t1 == IF outcome = "local"
                          THEN [t EXCEPT !.log = Append(@, Event("lookup failed", key, Null))]
                          ELSE t IN
                /\ PassMoves(others, RunLoop(Adopt(Looked(t1, key, got.variant), got), cache.list,
                                              ~IsStaleAt(stamp, now)), cache, stamp)
                /\ UNCHANGED queueVars
    /\ UNCHANGED <<now, rawItem, libVars, online, ab_user, ab_user_timestamp, remoteVars, refreshes, calls>>

\* another tab or device of a user writes a variant of its own to the remote store
OtherDeviceSaves(userId, experimentKey, variant) ==
    /\ remoteVariants[<<userId, experimentKey>>] = Null
    /\ remoteVariants' = [remoteVariants EXCEPT ![<<userId, experimentKey>>] = variant]
    /\ UNCHANGED <<now, rawItem, libVars, online, storeVars, remoteUsers, queueVars, refreshes, tasks, histVars>>

(***************************************************************************)
(* Initial state: a freshly loaded page with empty local storage.          *)
(***************************************************************************)
Init ==
    /\ now = StartTime
    /\ rawItem = NoItem
    /\ InitLib
    /\ online = TRUE
    /\ ab_user = NoUser
    /\ ab_user_timestamp = NoTime
    /\ ab_variants = Missing
    /\ ab_variants_timestamp = NoTime
    /\ ab_sync_queue = <<>>
    /\ remoteUsers = [u \in UserIds |-> Null]
    /\ remoteVariants = [p \in UserIds \X Keys |-> Null]
    /\ procs = EmptyBag
    /\ nextOpId = 1
    /\ syncHandlers = SyncOperationTypes
    /\ failures = <<>>
    /\ refreshes = EmptyBag
    /\ tasks = EmptyBag
    /\ calls = 0
    /\ ret = [n |-> 0, op |-> "none"]

(***************************************************************************)
(* The sync queue on its own: records are added and delivered.             *)
(***************************************************************************)
NextQueue ==
    \/ AddVariantOp
    \/ AddUserOp
    \/ \E t \in SyncOperationTypes : ProcessByType(t)
    \/ \E p \in Running : SyncSucceeds(p)
    \/ \E p \in Running : SyncFails(p)
    \/ \E p \in Running : BackoffDone(p)
    \/ GoOffline
    \/ GoOnline

SpecQueue == Init /\ [][NextQueue]_vars

\* C1: once the delivery of a record has failed MAX_RETRIES times, the record
\* is no longer in the persisted queue.
C1_DroppedAfterCeiling ==
    \A id \in OpIds : failures[id] >= MAX_RETRIES => ~InQueue(ab_sync_queue, id)

(***************************************************************************)
(* The user service with the delivery of its queued records.               *)
(***************************************************************************)
NextUser ==
    \/ \E user \in Identities : SaveUser(user)
    \/ \E user \in Identities : UpdateUser(user)
    \/ GetUser
    \/ \E u \in UserIds : RefreshSucceeds(u)
    \/ \E u \in UserIds : RefreshFails(u)
    \/ \E p \in Running : SyncSucceeds(p)
    \/ \E p \in Running : SyncFails(p)
    \/ \E p \in Running : BackoffDone(p)
    \/ Tick

SpecUser == Init /\ [][NextUser]_vars

\* the step is a call of userService.updateUser
IsUpdateUserCall == ret'.n # ret.n /\ ret'.op = "updateUser"

\* C3: updateUser with an identity whose id differs from the cached one raises
\* UserIdMismatchError and leaves the cached identity, its timestamp, the
\* variant cache, the sync queue, the deliveries in flight and the remote
\* store as they were, whether the cached identity is fresh or stale.
C3_MismatchWritesNothing ==
    [][(IsUpdateUserCall /\ ab_user # NoUser /\ ret'.arg.id # ab_user.id)
        => /\ ret'.result = "UserIdMismatchError"
           /\ UNCHANGED <<storeVars, queueVars, remoteVars>>]_vars

\* a mismatching updateUser was rejected while the cached identity was stale
\* (the refresh that getUser started then is in flight)
C3_Witness ==
    /\ ret.op = "updateUser" /\ ret.result = "UserIdMismatchError"
    /\ ab_user # NoUser /\ ret.arg.id # ab_user.id
    /\ isUserStale
    /\ BagIn(ab_user.id, refreshes)

\* C4: updateUser without a cached identity raises UserNotInitializedError,
\* stores nothing, queues nothing and makes no remote call.
C4_UninitializedWritesNothing ==
    [][(IsUpdateUserCall /\ ab_user = NoUser)
        => /\ ret'.result = "UserNotInitializedError"
           /\ UNCHANGED <<storeVars, queueVars, remoteVars, refreshes>>]_vars

\* updateUser was rejected for want of a cached identity
C4_Witness ==
    /\ ret.op = "updateUser" /\ ret.result = "UserNotInitializedError"
    /\ ab_user = NoUser /\ ab_sync_queue = <<>> /\ refreshes = EmptyBag

(***************************************************************************)
(* The listener and initializeUser, with direct saves, the delivery of the *)
(* queued records, the background refresh of the identity and the writes   *)
(* of other devices.                                                       *)
(***************************************************************************)
Awaiting == BagToSet(tasks)

\* the identities initializeUser is called with
InitUsers == {[id |-> "u1", email |-> "a@x"], [id |-> "u2", email |-> "a@x"]}

NextPass ==
    \/ \E user \in InitUsers : InitializeUser(user)
    \/ \E exps \in ExperimentLists : ListenerNotify(exps, EvenSplits)
    \/ \E t \in Awaiting, exps \in ExperimentLists : ExperimentsAnswered(t, exps, EvenSplits)
    \/ \E t \in Awaiting : ExperimentsFail(t)
    \/ \E t \in Awaiting, answer \in VariantsAnswers : VariantsAnswered(t, answer)
    \/ \E t \in Awaiting, answer \in VariantAnswers : LookupAnswered(t, answer)
    \/ OtherDeviceSaves("u1", "e1", "A")
    \/ \E u \in UserIds : RefreshSucceeds(u)
    \/ \E u \in UserIds : RefreshFails(u)
    \/ \E p \in Running : SyncSucceeds(p)
    \/ Tick

SpecPass == Init /\ [][NextPass]_vars

\* no two entries of a list are for the same user and experiment
NoDuplicatePair(list) ==
    \A i, j \in 1..Len(list) :
        (list[i].user_id = list[j].user_id /\ list[i].experiment_key = list[j].experiment_key) => i = j

\* C2: the cached variant list never holds two entries for the same
\* (user_id, experiment_key) pair.
C2_OneEntryPerPair == NoDuplicatePair(ab_variants.list)

\* a save has appended the entry of a user next to the entry that another
\* user has for the same experiment
C2_Witness ==
    \E i, j \in 1..Len(ab_variants.list) :
        /\ i < j
        /\ ab_variants.list[i].experiment_key = ab_variants.list[j].experiment_key
        /\ ab_variants.list[i].user_id # ab_variants.list[j].user_id

\* the passes in flight
Passes == {t \in Awaiting : IsPass(t)}
\* has the latest call that returned been a pass?
PassHasReturned == ret.op \in {"listener", "init"}

\* the keys of the entries of a list
KeysOf(list) == {list[j].experiment_key : j \in 1..Len(list)}
\* the saves among the events of a log
SavesIn(log) == {j \in 1..Len(log) : log[j].e = "save"}

\* every save of the log is for an experiment that neither the list returned
\* by getVariantsByUserId nor an earlier lookup of the pass had a variant for
SavesOnlyMissing(fetched, log) ==
    \A j \in SavesIn(log) :
        /\ log[j].key \notin KeysOf(fetched)
        /\ \A h \in 1..(j - 1) : ~(log[h].e = "lookup" /\ log[h].key = log[j].key /\ log[h].val # Null)

RemoteReachable(log) ==
    \A j \in 1..Len(log) : log[j].e # "lookup failed" /\ ~(log[j].e = "list" /\ log[j].val = "throws")

\* C6: after the listener has handled a notification without error and with
\* the remote store reachable, every experiment of the delivered list has a
\* variant of the user in the list the pass has written to the local cache.
C6_ListenerAssignsAll ==
    (ret.op = "listener" /\ ret.result = "ok" /\ RemoteReachable(ret.log))
        => \A j \in 1..Len(ret.exps) :
              \E h \in 1..Len(ret.variants) :
                  /\ ret.variants[h].experiment_key = ret.exps[j]
                  /\ ret.variants[h].user_id = ret.user.id

\* a record of the sync queue is for the pair
Queued(userId, experimentKey) ==
    \E j \in 1..Len(ab_sync_queue) :
        /\ ab_sync_queue[j].type = "variant"
        /\ ab_sync_queue[j].data.userId = userId
        /\ ab_sync_queue[j].data.experimentKey = experimentKey

\* C7: after initializeUser has completed, every experiment returned by
\* getExperiments has a variant of the user in the list written to the local
\* cache, and that variant is in the remote store or queued for it.
C7_InitAssignsAll ==
    (ret.op = "init" /\ ret.result = "ok" /\ RemoteReachable(ret.log))
        => \A j \in 1..Len(ret.exps) :
              /\ ret.exps[j] \in KeysOf(ret.variants)
              /\ \/ remoteVariants[<<ret.user.id, ret.exps[j]>>] # Null
                 \/ Queued(ret.user.id, ret.exps[j])

\* every save of the log comes right after a single-record lookup of the same
\* experiment that returned null, itself made after the list lookup; and an
\* experiment whose first lookup returned a variant has that variant pushed
\* and is never saved
SavesAfterNullLookup(log) ==
    /\ \A j \in SavesIn(log) :
          /\ j > 2
          /\ log[1].e = "list"
          /\ log[j - 1] = Event("lookup", log[j].key, Null)
    /\ \A h \in 2..Len(log) :
          (log[h].e = "lookup" /\ log[h].val # Null /\ log[h - 1].e # "save")
              => \A j \in SavesIn(log) : log[j].key # log[h].key

\* C8: a pass saves a variant for an experiment only after its single-record
\* lookup of the pair, made after the list lookup, has returned null; when the
\* lookup returns a variant, that variant is adopted and nothing is saved for
\* the pair.
C8_SaveOnlyAfterRecheck ==
    /\ \A t \in Passes : SavesAfterNullLookup(t.log)
    /\ PassHasReturned => SavesAfterNullLookup(ret.log)

\* the list lookup of a pass did not have e1, another device wrote a variant
\* for it meanwhile, and the pass has adopted that variant without a save
C8_Witness ==
    /\ PassHasReturned /\ ret.result = "ok"
    /\ "e1" \notin KeysOf(ret.fetched)
    /\ \E h \in 1..Len(ret.log) : ret.log[h] = Event("lookup", "e1", "A")
    /\ SavesIn(ret.log) = {}
    /\ UserVariant(ret.user.id, "e1", "A") \in {ret.variants[j] : j \in 1..Len(ret.variants)}
    /\ AssignTable[ret.user, "e1"] # "A"

(***************************************************************************)
(* The variant service called directly, on a page loaded either with empty *)
(* local storage or with the storage an earlier session left behind.       *)
(***************************************************************************)

\* the identity of the earlier session
LoadedUser == [id |-> "u1", email |-> "a@x"]

\* the variants an initializeUser pass assigns for the experiments exps
AssignedList(user, exps) ==
    [j \in 1..Len(exps) |-> UserVariant(user.id, exps[j], AssignTable[user, exps[j]])]

\* local storage and the remote store after initializeUser(LoadedUser) ran
\* with the experiments exps and its queued records were delivered
LoadedWith(exps) ==
    /\ ab_user = LoadedUser
    /\ ab_user_timestamp = StartTime
    /\ ab_variants = Stored(AssignedList(LoadedUser, exps))
    /\ ab_variants_timestamp = (IF exps = <<>> THEN NoTime ELSE StartTime)
    /\ ab_sync_queue = <<>>
    /\ remoteUsers = [u \in UserIds |-> IF u = LoadedUser.id THEN LoadedUser.email ELSE Null]
    /\ remoteVariants = [p \in UserIds \X Keys |->
                            IF p[1] = LoadedUser.id /\ \E j \in 1..Len(exps) : exps[j] = p[2]
                            THEN AssignTable[LoadedUser, p[2]] ELSE Null]

\* the page is loaded again after such a session
InitLoaded ==
    /\ \E exps \in ExperimentLists : LoadedWith(exps)
    /\ now = StartTime
    /\ rawItem = NoItem
    /\ InitLib
    /\ online = TRUE
    /\ procs = EmptyBag
    /\ nextOpId = 1
    /\ syncHandlers = SyncOperationTypes
    /\ failures = <<>>
    /\ refreshes = EmptyBag
    /\ tasks = EmptyBag
    /\ calls = 0
    /\ ret = [n |-> 0, op |-> "none"]

NextService ==
    \/ \E u \in UserIds : GetVariantsByUserId(u)
    \/ \E k \in Keys : GetVariant(k)
    \/ \E u \in UserIds, k \in Keys, v \in VariantKeys : SaveUserVariantForExperiment(u, k, v)
    \/ \E t \in Awaiting, answer \in VariantsAnswers : VariantsAnswered(t, answer)
    \/ \E t \in Awaiting, answer \in VariantAnswers : LookupAnswered(t, answer)
    \/ \E k \in Keys : OtherDeviceSaves("u1", k, "A")
    \/ \E u \in UserIds : RefreshSucceeds(u)
    \/ \E u \in UserIds : RefreshFails(u)
    \/ \E p \in Running : SyncSucceeds(p)
    \/ Tick

SpecService == (Init \/ InitLoaded) /\ [][NextService]_vars

\* the latest call that returned is a getVariantsByUserId whose remote call failed
RemoteFailed == ret.op = "getVariants" /\ ret.answer = "throws"

IsGetVariantsCall ==
    /\ calls' = calls + 1
    /\ \/ ret'.n # ret.n /\ ret'.op = "getVariants"
       \/ \E t \in BagToSet(tasks') : t.op = "getVariants" /\ CopiesIn(t, tasks') > CopiesIn(t, tasks)

\* C10: getVariantsByUserId called with a non-empty cached list whose
\* timestamp is within the staleness threshold returns that list at once,
\* makes no remote call and writes nothing.
C10_FreshHitServedLocally ==
    [][(IsGetVariantsCall /\ ab_variants.has /\ Len(ab_variants.list) > 0 /\ ~isStale)
        => /\ ret'.n = ret.n + 1 /\ ret'.op = "getVariants"
           /\ ret'.result = "ok" /\ ret'.value = ab_variants.list /\ ret'.answer = "none"
           /\ UNCHANGED <<storeVars, queueVars, remoteVars, tasks>>]_vars

\* the list was served from a cache exactly as old as the threshold
C10_Witness ==
    /\ ret.op = "getVariants" /\ ret.answer = "none" /\ ret.result = "ok"
    /\ Len(ret.value) > 0 /\ ret.value = ab_variants.list
    /\ now - ab_variants_timestamp = STALENESS_THRESHOLD_MS

(***************************************************************************)
(* One identity over several sessions: initializeUser with the same        *)
(* identity, listener notifications and getVariant calls, while the splits *)
(* of the experiments change remotely and connectivity comes and goes.     *)
(***************************************************************************)
NextSticky ==
    \/ InitializeUser(LoadedUser)
    \/ \E splits \in SplitSets : ListenerNotify(<<"e1">>, splits)
    \/ \E t \in Awaiting, splits \in SplitSets : ExperimentsAnswered(t, <<"e1">>, splits)
    \/ \E t \in Awaiting : ExperimentsFail(t)
    \/ GetVariant("e1")
    \/ \E t \in Awaiting, answer \in VariantsAnswers : VariantsAnswered(t, answer)
    \/ \E t \in Awaiting, answer \in VariantAnswers : LookupAnswered(t, answer)
    \/ \E u \in UserIds : RefreshSucceeds(u)
    \/ \E u \in UserIds : RefreshFails(u)
    \/ \E p \in Running : SyncSucceeds(p)
    \/ GoOffline
    \/ GoOnline
    \/ Tick

SpecSticky == Init /\ [][NextSticky]_vars

\* the variants that saveUserVariantForExperiment has recorded for the pair
\* and that still await their delivery
QueuedVariants(userId, experimentKey) ==
    {ab_sync_queue[j].data.variant : j \in {h \in 1..Len(ab_sync_queue) :
        /\ ab_sync_queue[h].type = "variant"
        /\ ab_sync_queue[h].data.userId = userId
        /\ ab_sync_queue[h].data.experimentKey = experimentKey}}

\* what getVariant(experimentKey) returns from a fresh cache
ServedVariant(experimentKey) == ab_variants.list[FindByKey(ab_variants.list, experimentKey)].variant

\* C11: a variant recorded for (user, experiment) is the one getVariant keeps
\* returning: whenever the cache is fresh and has an entry for the experiment,
\* that entry has the variant recorded (and queued for delivery) earlier for
\* the pair, and the remote row of the pair, once written, has it too.
C11_StickyAssignment ==
    \A k \in Keys :
        (ab_user # NoUser /\ ~isStale /\ FindByKey(ab_variants.list, k) > 0)
            => /\ QueuedVariants(ab_user.id, k) \subseteq {ServedVariant(k)}
               /\ remoteVariants[<<ab_user.id, k>>] \in {Null, ServedVariant(k)}

(***************************************************************************)
(* Saves of one user's variants and their delivery, under fairness: a      *)
(* pending backoff timer fires, a delivery that is attempted again and     *)
(* again eventually succeeds, the queue keeps being processed while it     *)
(* holds records, and the browser comes back online.                       *)
(***************************************************************************)
NextConverge ==
    \/ \E k \in Keys, v \in VariantKeys : SaveUserVariantForExperiment("u1", k, v)
    \/ ProcessByType("variant")
    \/ \E p \in Running : SyncSucceeds(p)
    \/ \E p \in Running : SyncFails(p)
    \/ \E p \in Running : BackoffDone(p)
    \/ GoOffline
    \/ GoOnline

SpecConverge ==
    /\ Init
    /\ [][NextConverge]_vars
    /\ WF_vars(\E p \in Running : BackoffDone(p))
    /\ SF_vars(\E p \in Running : SyncSucceeds(p))
    /\ SF_vars(ProcessByType("variant"))
    /\ WF_vars(GoOnline)

\* the remote store holds, for every pair of the cache, the variant of the cache
RemoteMatchesCache ==
    \A j \in 1..Len(ab_variants.list) :
        remoteVariants[<<ab_variants.list[j].user_id, ab_variants.list[j].experiment_key>>]
            = ab_variants.list[j].variant

Converged == ab_sync_queue = <<>> /\ RemoteMatchesCache

\* C12: when connectivity eventually stays online, the system eventually
\* reaches and stays in a state where the sync queue is empty and the remote
\* store holds, for every (user, experiment), the variant last written to
\* the local cache.
C12_EventualConvergence == (<>[]online) => <>[]Converged

(***************************************************************************)
(* The sync queue with its processing entry points called at any time,     *)
(* online or offline.                                                      *)
(***************************************************************************)

\* syncQueue.processByType(type, handler), called with the call recorded:
\* offline it returns at once
ProcessByTypeCall(type) ==
    /\ MayCall
    /\ MaySpawn
    /\ calls' = calls + 1
    /\ procs' = Spawn(procs, Launch(<<type>>, ab_sync_queue, online))
    /\ ret' = Returned("processByType", [type |-> type, online |-> online])
    /\ UNCHANGED <<now, rawItem, libVars, online, storeVars, remoteVars, ab_sync_queue, nextOpId, syncHandlers, failures, refreshes, tasks>>

\* processAllOperations() run by the 'online' listener when connectivity is
\* whatever it is by then: offline it returns at once
ProcessAllOperations ==
    /\ MayCall
    /\ MaySpawn
    /\ calls' = calls + 1
    /\ procs' = Spawn(procs, Flush(TypesOf(ab_sync_queue), ab_sync_queue, online))
    /\ ret' = Returned("processAllOperations", [type |-> Null, online |-> online])
    /\ UNCHANGED <<now, rawItem, libVars, online, storeVars, remoteVars, ab_sync_queue, nextOpId, syncHandlers, failures, refreshes, tasks>>

NextOffline ==
    \/ AddVariantOp
    \/ AddUserOp
    \/ \E t \in SyncOperationTypes : ProcessByTypeCall(t)
    \/ ProcessAllOperations
    \/ \E p \in Running : SyncSucceeds(p)
    \/ \E p \in Running : SyncFails(p)
    \/ \E p \in Running : BackoffDone(p)
    \/ GoOffline
    \/ GoOnline

SpecOffline == Init /\ [][NextOffline]_vars

\* the step starts no call of a sync function: every invocation that awaits
\* its sync function after the step awaited it before
NoSyncStarted ==
    \A p \in BagToSet(procs') : p.pc = "sync" => CopiesIn(p, procs') <= CopiesIn(p, procs)

\* the step is the answer of a sync function that was called earlier
SyncAnswered ==
    \E p \in BagToSet(procs) : p.pc = "sync" /\ CopiesIn(p, procs') < CopiesIn(p, procs)

\* the step is a call of one of the processing entry points
IsProcessingCall == ret'.n # ret.n /\ ret'.op \in {"processByType", "processAllOperations"}

\* C13: while connectivity is offline, no step of processByType,
\* processOperation or the flush of all pending operations calls a sync
\* function, a call of processByType or of the flush changes nothing, and the
\* persisted queue changes only when a record is added or when a sync function
\* called before connectivity was lost answers.
C13_OfflineLeavesQueue ==
    [][(~online /\ ~online') =>
        /\ NoSyncStarted
        /\ IsProcessingCall => (procs' = procs /\ ab_sync_queue' = ab_sync_queue)
        /\ ab_sync_queue' # ab_sync_queue => (SyncAnswered \/ nextOpId' # nextOpId)]_vars

\* processByType was called offline with records of its type queued, and an
\* invocation that lost connectivity on its way waits for a backoff delay
C13_Witness ==
    /\ ~online
    /\ ret.op = "processByType"
    /\ ~ret.online
    /\ GetByType(ab_sync_queue, ret.type) # <<>>
    /\ \E p \in Running : p.pc = "backoff" /\ p.i > 1

\* the invocation at place p2 has just started: it is about to pass the first
\* of the records of its type that the queue holds, in the order of the queue
Started(p2) ==
    /\ p2.i = 1
    /\ p2.pc = "sync"
    /\ p2.ops = Snapshot(GetByType(ab_sync_queue', p2.type))

\* the invocation at place p has moved to place p2: it waits for the backoff
\* delay of the record it passed, or it is done with that record and, online,
\* passes the next one
Advanced(p, p2) ==
    /\ p2.type = p.type /\ p2.ops = p.ops /\ p2.rest = p.rest
    /\ \/ p.pc = "sync" /\ p2.pc = "backoff" /\ p2.i = p.i
       \/ p2.i > p.i /\ (online' => (p2.i = p.i + 1 /\ p2.pc = "sync"))

\* the records an invocation iterates over are of its type and in the order
\* they were added (add() numbers the records in that order), none twice
OwnTypeInOrder ==
    \A p \in Running :
        /\ \A j \in 1..Len(p.ops) : p.ops[j].type = p.type
        /\ \A j \in 1..(Len(p.ops) - 1) : p.ops[j].id < p.ops[j + 1].id
        /\ p.i \in 1..Len(p.ops)

\* C14: one processByType invocation passes to its sync function the records
\* of its type that were queued when it started, in the order they were added,
\* one at a time (the next one only after the previous attempt and its backoff
\* wait are over), each at most once, and never a record of the other type.
C14_FifoOneAtATime ==
    /\ []OwnTypeInOrder
    /\ [][\A p2 \in BagToSet(procs') :
            CopiesIn(p2, procs') > CopiesIn(p2, procs)
                => (Started(p2) \/ \E p \in BagToSet(procs) :
                                       CopiesIn(p, procs') < CopiesIn(p, procs) /\ Advanced(p, p2))]_vars

\* an invocation passes its second record, online, after the attempt on its
\* first record failed and the backoff wait is over
C14_Witness ==
    /\ online
    /\ \E p \in Running :
        /\ p.pc = "sync" /\ p.i = 2
        /\ failures[p.ops[1].id] > 0
        /\ InQueue(ab_sync_queue, p.ops[1].id)

(***************************************************************************)
(* The flush on the 'online' event, with the sync handlers registered one  *)
(* by one as the service modules load.  An awaited remote save answers and *)
(* a pending backoff timer fires.                                          *)
(***************************************************************************)

\* registerSyncHandler(type, handler)
RegisterSyncHandler(type) ==
    /\ type \notin syncHandlers
    /\ syncHandlers' = syncHandlers \cup {type}
    /\ UNCHANGED <<now, rawItem, libVars, online, storeVars, remoteVars, ab_sync_queue, procs, nextOpId, failures, refreshes, tasks, histVars>>

\* the state after the sync queue module is loaded: no handler is registered
InitFlush ==
    /\ now = StartTime
    /\ rawItem = NoItem
    /\ InitLib
    /\ online = TRUE
    /\ ab_user = NoUser
    /\ ab_user_timestamp = NoTime
    /\ ab_variants = Missing
    /\ ab_variants_timestamp = NoTime
    /\ ab_sync_queue = <<>>
    /\ remoteUsers = [u \in UserIds |-> Null]
    /\ remoteVariants = [p \in UserIds \X Keys |-> Null]
    /\ procs = EmptyBag
    /\ nextOpId = 1
    /\ syncHandlers = {}
    /\ failures = <<>>
    /\ refreshes = EmptyBag
    /\ tasks = EmptyBag
    /\ calls = 0
    /\ ret = [n |-> 0, op |-> "none"]

NextFlush ==
    \/ \E t \in SyncOperationTypes : RegisterSyncHandler(t)
    \/ AddVariantOp
    \/ AddUserOp
    \/ \E p \in Running : SyncSucceeds(p)
    \/ \E p \in Running : SyncFails(p)
    \/ \E p \in Running : BackoffDone(p)
    \/ GoOffline
    \/ GoOnline

SpecFlush ==
    /\ InitFlush
    /\ [][NextFlush]_vars
    /\ WF_vars(\E p \in Running : SyncSucceeds(p) \/ SyncFails(p))
    /\ WF_vars(\E p \in Running : BackoffDone(p))

\* the type of the queued record id
TypeOf(id) == ab_sync_queue[FindIndex(ab_sync_queue, id)].type

\* a flush has record id ahead: in the list it iterates over, or among the
\* types it has yet to process
FlushPending(id) ==
    /\ InQueue(ab_sync_queue, id)
    /\ \E p \in Running :
        \/ p.type = TypeOf(id) /\ \E j \in (p.i + 1)..Len(p.ops) : p.ops[j].id = id
        \/ \E j \in 1..Len(p.rest) : p.rest[j] = TypeOf(id) /\ TypeOf(id) \in syncHandlers

\* record id is passed to a handler
Dispatched(id) == \E p \in Running : p.pc = "sync" /\ p.ops[p.i].id = id

\* handlers get records of their own type only
NeverCrossed ==
    \A p \in Running : p.type \in syncHandlers /\ \A j \in 1..Len(p.ops) : p.ops[j].type = p.type

\* the step is the 'online' event
OnlineEvent == ~online /\ online'

\* C15: when the 'online' event fires, every queued record whose type has a
\* registered handler is taken up by the flush and, unless connectivity is
\* lost again or the record leaves the queue, is eventually passed to a
\* handler, which is the handler of its own type; the records of a type
\* without a handler stay in the queue with their retry counters.
C15_OnlineFlushDispatches ==
    /\ []NeverCrossed
    /\ [][OnlineEvent =>
            \A j \in 1..Len(ab_sync_queue) :
                ab_sync_queue[j].type \in syncHandlers
                    => (\E p \in BagToSet(procs') : CopiesIn(p, procs') > CopiesIn(p, procs))
                       /\ (Dispatched(ab_sync_queue[j].id) \/ FlushPending(ab_sync_queue[j].id))']_vars
    /\ [][\A j \in 1..Len(ab_sync_queue) :
            ab_sync_queue[j].type \notin syncHandlers'
                => \E h \in 1..Len(ab_sync_queue') : ab_sync_queue'[h] = ab_sync_queue[j]]_vars
    /\ \A id \in 1..MaxAdds :
        (id \in OpIds /\ FlushPending(id)) ~> (Dispatched(id) \/ ~online \/ ~InQueue(ab_sync_queue, id))

\* the flush passes a variant record to the variant handler after it is done
\* with the user records, while a record of a type registered too late waits
C15_Witness ==
    /\ online
    /\ \E p \in Running :
        /\ p.pc = "sync" /\ p.type = "variant" /\ p.rest = <<>>
        /\ \E j \in 1..Len(ab_sync_queue) : ab_sync_queue[j].type = "user"

(***************************************************************************)
(* The writes of the two services, with a local storage whose writes may   *)
(* fail.                                                                   *)
(***************************************************************************)

\* the typed errors storageManager raises
StorageErrors == {"StorageQuotaExceededError", "StorageCorruptionError", "StorageUnavailableError"}

\* a saveUser that swallows the error of its local write and queues the record
SaveUserLocalWriteFails_StillQueues(user, error) ==
    /\ MayCall
    /\ MaySpawn
    /\ calls' = calls + 1
    /\ EnqueueAndProcess("user", "create", user)
    /\ ret' = Returned("saveUser", [arg |-> user, result |-> error])
    /\ UNCHANGED <<now, rawItem, libVars, online, storeVars, remoteVars, refreshes, tasks>>

\* saveUser(user) when setItem('ab_user') raises: the error is rethrown
SaveUserLocalWriteFails(user, error) ==
    /\ MayCall
    /\ calls' = calls + 1
    /\ ret' = Returned("saveUser", [arg |-> user, result |-> error])
    /\ UNCHANGED <<now, rawItem, libVars, online, storeVars, remoteVars, queueVars, refreshes, tasks>>

\* updateUser(user) when the guards pass and setItem('ab_user') raises: the
\* error is rethrown
UpdateUserLocalWriteFails(user, error) ==
    /\ MayCall
    /\ MayGetUser
    /\ UpdateUserOutcome(ab_user, user) = "ok"
    /\ refreshes' = RefreshesAfterGetUser
    /\ calls' = calls + 1
    /\ ret' = Returned("updateUser", [arg |-> user, result |-> error])
    /\ UNCHANGED <<now, rawItem, libVars, online, storeVars, remoteVars, queueVars, tasks>>

\* saveUserVariantForExperiment when its read or write of 'ab_variants' raises
\* a storage error: the error is swallowed (a corrupted entry was deleted by
\* the read), then add() builds the record and saveQueue writes the queue,
\* swallowing the error when that write fails too (queueSaved = FALSE), and
\* processByType starts over what the stored queue holds.  With the storage
\* unavailable the queue can neither be written nor read.
SaveUserVariantLocalWriteFails(userId, experimentKey, variant, error, queueSaved) ==
    /\ MayCall
    /\ MaySpawn
    /\ error = "StorageUnavailableError" => ~queueSaved
    /\ calls' = calls + 1
    /\ ab_variants' = IF error = "StorageCorruptionError" THEN Missing ELSE ab_variants
    /\ IF queueSaved
       THEN EnqueueAndProcess("variant", "update",
                              [userId |-> userId, experimentKey |-> experimentKey, variant |-> variant])
       ELSE /\ procs' = IF error = "StorageUnavailableError" THEN procs
                        ELSE Spawn(procs, Launch(<<"variant">>, ab_sync_queue, online))
            /\ UNCHANGED <<ab_sync_queue, nextOpId, syncHandlers, failures>>
    /\ ret' = Returned("saveVariant", [user |-> userId, key |-> experimentKey, variant |-> variant,
                                       write |-> error, result |-> "ok"])
    /\ UNCHANGED <<now, rawItem, libVars, online, ab_user, ab_user_timestamp, ab_variants_timestamp, remoteVars, refreshes, tasks>>

NextWrites ==
    \/ \E user \in InitUsers : SaveUser(user)
    \/ \E user \in Identities : UpdateUser(user)
    \/ \E v \in VariantKeys : SaveUserVariantForExperiment("u1", "e1", v)
    \/ \E user \in InitUsers, error \in StorageErrors : SaveUserLocalWriteFails(user, error)
    \/ \E user \in Identities, error \in StorageErrors : UpdateUserLocalWriteFails(user, error)
    \/ \E v \in VariantKeys, error \in StorageErrors, queueSaved \in BOOLEAN :
           SaveUserVariantLocalWriteFails("u1", "e1", v, error, queueSaved)
    \/ \E p \in Running : SyncSucceeds(p)
    \/ \E p \in Running : SyncFails(p)
    \/ \E p \in Running : BackoffDone(p)
    \/ GoOffline
    \/ GoOnline

SpecWrites == Init /\ [][NextWrites]_vars

\* the step is a call of one of the three service writes
IsWriteCall == ret'.n # ret.n /\ ret'.op \in {"saveVariant", "saveUser", "updateUser"}

\* the local write of the call succeeded and the call returned normally
WroteLocally(r) == r.result = "ok" /\ (r.op = "saveVariant" => r.write = "ok")

\* the local cache (identity user, variant list variants) holds what record rec carries
LocallyWritten(rec, user, variants) ==
    IF rec.type = "user" THEN user = rec.data
    ELSE LET k == FindIndexOfPair(variants.list, rec.data.userId, rec.data.experimentKey) IN
         k > 0 /\ variants.list[k].variant = rec.data.variant

\* every record an invocation may pass to a sync function has been appended
OnlyAppendedRecords ==
    \A p \in Running : \A j \in 1..Len(p.ops) : p.ops[j].id \in OpIds

\* C16: a service write (saveUserVariantForExperiment, saveUser, updateUser)
\* whose local write succeeds first writes the local cache, then appends its
\* record to the queue, and only then issues the remote save: after the step
\* of the call the cache holds the data, the record is the last of the queue,
\* the invocation started by the call iterates over a queue that has the
\* record, and the remote store is as it was; the remote store changes only
\* when a remote save issued earlier answers.
C16_LocalThenQueueThenRemote ==
    /\ []OnlyAppendedRecords
    /\ [][(IsWriteCall /\ WroteLocally(ret')) =>
            LET rec == ab_sync_queue'[Len(ab_sync_queue')] IN
            /\ ab_sync_queue' = Append(ab_sync_queue, rec)
            /\ rec.id = nextOpId /\ rec.retries = 0
            /\ LocallyWritten(rec, ab_user', ab_variants')
            /\ remoteVars' = remoteVars
            /\ \A p2 \in BagToSet(procs') :
                   CopiesIn(p2, procs') > CopiesIn(p2, procs)
                       => /\ Started(p2) /\ p2.type = rec.type
                          /\ \E j \in 1..Len(p2.ops) : p2.ops[j].id = rec.id
            /\ online => procs' # procs]_vars
    /\ [][remoteVars' # remoteVars => SyncAnswered]_vars

\* updateUser has written the identity and queued its record behind an older
\* one, and the remote save of the older record is awaited: the remote store
\* still has the identity of the earlier write at most
C16_Witness ==
    /\ ret.op = "updateUser" /\ ret.result = "ok"
    /\ ab_user = ret.arg
    /\ Len(ab_sync_queue) = 2
    /\ ab_sync_queue[2].data = ret.arg
    /\ remoteUsers[ret.arg.id] # ret.arg.email
    /\ \E p \in Running : p.pc = "sync" /\ Len(p.ops) = 2

\* C17: when the local write of saveUserVariantForExperiment fails with
\* quota-exceeded, the call returns normally and a 'variant'/'update' record
\* carrying (userId, experimentKey, variant) is in the persisted queue.
C17_QuotaStillQueued ==
    [][(ret'.n # ret.n /\ ret'.op = "saveVariant" /\ ret'.write = "StorageQuotaExceededError") =>
        /\ ret'.result = "ok"
        /\ \E j \in 1..Len(ab_sync_queue') :
            /\ ab_sync_queue'[j].id = nextOpId
            /\ ab_sync_queue'[j].type = "variant"
            /\ ab_sync_queue'[j].operation = "update"
            /\ ab_sync_queue'[j].data = [userId |-> ret'.user, experimentKey |-> ret'.key,
                                         variant |-> ret'.variant]]_vars

\* the step is a saveUser or updateUser whose local write raised a storage error
IdentityWriteFailed == ret'.n # ret.n /\ ret'.op \in {"saveUser", "updateUser"} /\ ret'.result \in StorageErrors

\* C18: when the local write of the identity fails in saveUser or updateUser,
\* the typed storage error reaches the caller, no record is queued and no
\* remote save is started: the cache, the queue, the invocations in flight
\* and the remote store are as they were.
C18_IdentityWriteFailureStops ==
    /\ [][IdentityWriteFailed => UNCHANGED <<storeVars, queueVars, remoteVars>>]_vars
    /\ [][(ret'.n # ret.n /\ ret'.op \in {"saveUser", "updateUser"}
            /\ UNCHANGED <<storeVars, queueVars>>)
                => ret'.result # "ok"]_vars

\* updateUser raised the quota error while online with an identity cached and
\* nothing queued
C18_Witness ==
    /\ ret.op = "updateUser" /\ ret.result = "StorageQuotaExceededError"
    /\ online
    /\ ab_user # NoUser /\ ab_user.id = ret.arg.id /\ ab_user # ret.arg
    /\ ab_sync_queue = <<>> /\ procs = EmptyBag

(***************************************************************************)
(* The storage manager (storage/storageManager.ts) on one key.             *)
(*                                                                         *)
(* A JSON value is a record of its type and content; JSON.stringify and    *)
(* JSON.parse work on texts, sequences of code units.  The values and      *)
(* texts in use have non-negative integers, strings whose only escapes are *)
(* \" and \\, and no white space.                                          *)
(***************************************************************************)
JValue(t, n, chars, keys, items) == [t |-> t, n |-> n, chars |-> chars, keys |-> keys, items |-> items]
JNull == JValue("null", 0, <<>>, <<>>, <<>>)
JBool(b) == JValue(IF b THEN "true" ELSE "false", 0, <<>>, <<>>, <<>>)
JNum(n) == JValue("number", n, <<>>, <<>>, <<>>)
JStr(chars) == JValue("string", 0, chars, <<>>, <<>>)
JArr(items) == JValue("array", 0, <<>>, <<>>, items)
JObj(keys, items) == JValue("object", 0, <<>>, keys, items)

\* the code units of the characters and words of JSON texts and of the
\* property names of StorageMetadata
Ch ==
    [quote |-> 34, backslash |-> 92, comma |-> 44, colon |-> 58, minus |-> 45,
     lbracket |-> 91, rbracket |-> 93, lbrace |-> 123, rbrace |-> 125, zero |-> 48]
Word ==
    [null |-> <<110, 117, 108, 108>>, true |-> <<116, 114, 117, 101>>,
     false |-> <<102, 97, 108, 115, 101>>, data |-> <<100, 97, 116, 97>>,
     version |-> <<118, 101, 114, 115, 105, 111, 110>>,
     timestamp |-> <<116, 105, 109, 101, 115, 116, 97, 109, 112>>,
     checksum |-> <<99, 104, 101, 99, 107, 115, 117, 109>>,
     id |-> <<105, 100>>, email |-> <<101, 109, 97, 105, 108>>]

\* obj[key] = value on the properties of an object: a repeated key keeps its
\* place and takes the new value
PutMember(keys, items, key, value) ==
    IF \E j \in 1..Len(keys) : keys[j] = key
    THEN [keys |-> keys,
          items |-> [j \in 1..Len(items) |-> IF keys[j] = key THEN value ELSE items[j]]]
    ELSE [keys |-> Append(keys, key), items |-> Append(items, value)]

\* 'key' in obj and obj[key] (JNull stands for undefined) on a parsed value
HasMember(v, key) == v.t = "object" /\ \E j \in 1..Len(v.keys) : v.keys[j] = key
Member(v, key) ==
    IF HasMember(v, key) THEN v.items[CHOOSE j \in 1..Len(v.keys) : v.keys[j] = key] ELSE JNull

\* JSON.stringify(v): numbers as String(n), strings quoted with " and \
\* escaped, the parts of arrays and objects joined by commas
RECURSIVE JSON_stringify(_)
JSON_stringify(v) ==
    LET RECURSIVE NumberToString(_)
        NumberToString(n) ==
            IF n < 0 THEN <<45>> \o NumberToString(0 - n)
            ELSE IF n < 10 THEN <<Ch.zero + n>>
            ELSE NumberToString(n \div 10) \o <<Ch.zero + (n % 10)>>
        RECURSIVE Escaped(_)
        Escaped(chars) ==
            IF chars = <<>> THEN <<>>
            ELSE (IF Head(chars) \in {Ch.quote, Ch.backslash}
                  THEN <<Ch.backslash, Head(chars)>> ELSE <<Head(chars)>>)
                 \o Escaped(Tail(chars))
        Quoted(chars) == <<Ch.quote>> \o Escaped(chars) \o <<Ch.quote>>
        RECURSIVE Joined(_)
        Joined(parts) ==
            IF parts = <<>> THEN <<>>
            ELSE IF Len(parts) = 1 THEN parts[1]
            ELSE parts[1] \o <<Ch.comma>> \o Joined(Tail(parts))
    IN  CASE v.t = "null" -> Word.null
          [] v.t = "true" -> Word.true
          [] v.t = "false" -> Word.false
          [] v.t = "number" -> NumberToString(v.n)
          [] v.t = "string" -> Quoted(v.chars)
          [] v.t = "array" ->
                <<Ch.lbracket>>
                \o Joined([j \in 1..Len(v.items) |-> JSON_stringify(v.items[j])])
                \o <<Ch.rbracket>>
          [] v.t = "object" ->
                <<Ch.lbrace>>
                \o Joined([j \in 1..Len(v.keys) |->
                            Quoted(v.keys[j]) \o <<Ch.colon>> \o JSON_stringify(v.items[j])])
                \o <<Ch.rbrace>>

\* JSON.parse(text): the value (ok), or a SyntaxError (not ok).  Each parsing
\* step gives the value read and the text left.
JSON_parse(text) ==
    LET Parsed(value, rest) == [ok |-> TRUE, value |-> value, rest |-> rest]
        SyntaxError == [ok |-> FALSE, value |-> JNull, rest |-> <<>>]
        StartsWith(txt, word) == Len(txt) >= Len(word) /\ SubSeq(txt, 1, Len(word)) = word
        Drop(txt, n) == SubSeq(txt, n + 1, Len(txt))
        IsDigit(c) == c >= Ch.zero /\ c <= Ch.zero + 9
        \* the characters of a string up to its closing quote
        RECURSIVE ParseChars(_, _)
        ParseChars(txt, acc) ==
            IF txt = <<>> THEN SyntaxError
            ELSE IF Head(txt) = Ch.quote THEN Parsed(JStr(acc), Tail(txt))
            ELSE IF Head(txt) = Ch.backslash
                 THEN IF Len(txt) >= 2 /\ txt[2] \in {Ch.quote, Ch.backslash}
                      THEN ParseChars(Drop(txt, 2), Append(acc, txt[2]))
                      ELSE SyntaxError
            ELSE ParseChars(Tail(txt), Append(acc, Head(txt)))
        \* the digits of a number that does not start with 0
        RECURSIVE ParseDigits(_, _)
        ParseDigits(txt, n) ==
            IF txt # <<>> /\ IsDigit(Head(txt))
            THEN ParseDigits(Tail(txt), 10 * n + (Head(txt) - Ch.zero))
            ELSE Parsed(JNum(n), txt)
        RECURSIVE ParseValue(_)
        RECURSIVE ParseElements(_, _)
        RECURSIVE ParseMembers(_, _, _)
        ParseValue(txt) ==
            IF txt = <<>> THEN SyntaxError
            ELSE IF StartsWith(txt, Word.null) THEN Parsed(JNull, Drop(txt, Len(Word.null)))
            ELSE IF StartsWith(txt, Word.true) THEN Parsed(JBool(TRUE), Drop(txt, Len(Word.true)))
            ELSE IF StartsWith(txt, Word.false) THEN Parsed(JBool(FALSE), Drop(txt, Len(Word.false)))
            ELSE IF Head(txt) = Ch.zero THEN Parsed(JNum(0), Tail(txt))
            ELSE IF IsDigit(Head(txt)) THEN ParseDigits(txt, 0)
            ELSE IF Head(txt) = Ch.quote THEN ParseChars(Tail(txt), <<>>)
            ELSE IF Head(txt) = Ch.lbracket
                 THEN IF Len(txt) >= 2 /\ txt[2] = Ch.rbracket
                      THEN Parsed(JArr(<<>>), Drop(txt, 2))
                      ELSE ParseElements(Tail(txt), <<>>)
            ELSE IF Head(txt) = Ch.lbrace
                 THEN IF Len(txt) >= 2 /\ txt[2] = Ch.rbrace
                      THEN Parsed(JObj(<<>>, <<>>), Drop(txt, 2))
                      ELSE ParseMembers(Tail(txt), <<>>, <<>>)
            ELSE SyntaxError
        ParseElements(txt, items) ==
            LET r == ParseValue(txt) IN
            IF ~r.ok \/ r.rest = <<>> THEN SyntaxError
            ELSE IF Head(r.rest) = Ch.comma THEN ParseElements(Tail(r.rest), Append(items, r.value))
            ELSE IF Head(r.rest) = Ch.rbracket THEN Parsed(JArr(Append(items, r.value)), Tail(r.rest))
            ELSE SyntaxError
        ParseMembers(txt, keys, items) ==
            IF txt = <<>> \/ Head(txt) # Ch.quote THEN SyntaxError
            ELSE LET k == ParseChars(Tail(txt), <<>>) IN
                 IF ~k.ok \/ k.rest = <<>> \/ Head(k.rest) # Ch.colon THEN SyntaxError
                 ELSE LET r == ParseValue(Tail(k.rest)) IN
                      IF ~r.ok \/ r.rest = <<>> THEN SyntaxError
                      ELSE LET put == PutMember(keys, items, k.value.chars, r.value) IN
                           IF Head(r.rest) = Ch.comma
                           THEN ParseMembers(Tail(r.rest), put.keys, put.items)
                           ELSE IF Head(r.rest) = Ch.rbrace
                           THEN Parsed(JObj(put.keys, put.items), Tail(r.rest))
                           ELSE SyntaxError
        whole == ParseValue(text)
    IN  IF whole.ok /\ whole.rest = <<>> THEN whole ELSE SyntaxError

isValidJSON(jsonString) == JSON_parse(jsonString).ok

\* computeChecksum(data): the hash of JSON.stringify(data), from 2166136261,
\* as hash.toString(36).  A 32-bit integer is kept as its two halves; ^ and <<
\* take and give signed 32-bit integers, the sum of += is a number and is not
\* truncated: it is m * 2^32 + hi * 2^16 + lo with a small m of either sign.
computeChecksum(data) ==
    LET ShiftLeft(h, k) ==
            IF k >= 16 THEN [hi |-> (h.lo * (2 ^ (k - 16))) % Half, lo |-> 0]
            ELSE [hi |-> (h.hi * (2 ^ k) + ((h.lo * (2 ^ k)) \div Half)) % Half,
                  lo |-> (h.lo * (2 ^ k)) % Half]
        Sum32(terms) ==
            LET sumLo == terms[1].lo + terms[2].lo + terms[3].lo + terms[4].lo + terms[5].lo + terms[6].lo
                sumHi == terms[1].hi + terms[2].hi + terms[3].hi + terms[4].hi + terms[5].hi + terms[6].hi
                         + (sumLo \div Half)
                negatives == Cardinality({j \in 1..6 : terms[j].hi >= Half \div 2})
            IN  [m |-> (sumHi \div Half) - negatives, hi |-> sumHi % Half, lo |-> sumLo % Half]
        \* hash ^= c; hash += (hash << 1) + (hash << 4) + (hash << 7) + (hash << 8) + (hash << 24)
        ChecksumStep(h, c) ==
            LET x == [hi |-> h.hi, lo |-> BitXor(h.lo, c)]
            IN  Sum32(<<x, ShiftLeft(x, 1), ShiftLeft(x, 4), ShiftLeft(x, 7), ShiftLeft(x, 8), ShiftLeft(x, 24)>>)
        \* the loop over the characters; hash is a number after every round
        RECURSIVE ChecksumFrom(_, _)
        ChecksumFrom(h, txt) ==
            IF txt = <<>> THEN h
            ELSE LET hash == ChecksumStep(h, Head(txt)) IN
                 IF hash.lo \in 0..(Half - 1) THEN ChecksumFrom(hash, Tail(txt)) ELSE hash
        \* the digits in base 36 of the non-negative number upper * 2^16 + lo
        RECURSIVE ToBase36(_, _)
        ToBase36(upper, lo) ==
            LET v == (upper % 36) * Half + lo
                d == v % 36
                digit == IF d < 10 THEN Ch.zero + d ELSE 87 + d
            IN  IF upper = 0 /\ lo < 36 THEN <<digit>>
                ELSE ToBase36(upper \div 36, v \div 36) \o <<digit>>
        ToString36(upper, lo) ==
            IF upper >= 0 THEN ToBase36(upper, lo)
            ELSE <<Ch.minus>>
                 \o (IF lo = 0 THEN ToBase36(-upper, 0) ELSE ToBase36(-upper - 1, Half - lo))
        final == ChecksumFrom([m |-> 0, hi |-> 33052, lo |-> 40389], JSON_stringify(data))
    IN  ToString36(final.m * Half + final.hi, final.lo)

\* the wrapper setItem stores: { data, version, timestamp, checksum }
CURRENT_STORAGE_VERSION == 1
StorageMetadata(data, version, timestamp, checksum) ==
    JObj(<<Word.data, Word.version, Word.timestamp, Word.checksum>>,
         <<data, JNum(version), JNum(timestamp), JStr(checksum)>>)

isValidMetadata_Never(metadata) == FALSE
isValidMetadata(metadata) ==
    /\ metadata.t = "object"
    /\ HasMember(metadata, Word.data)
    /\ Member(metadata, Word.version).t = "number"
    /\ Member(metadata, Word.timestamp).t = "number"

\* migrateData: an older version is raised to the current one
migrateData(metadata, t) ==
    IF Member(metadata, Word.version).n < CURRENT_STORAGE_VERSION
    THEN LET v == PutMember(metadata.keys, metadata.items, Word.version, JNum(CURRENT_STORAGE_VERSION))
             ts == IF Member(metadata, Word.timestamp).n = 0 THEN JNum(t) ELSE Member(metadata, Word.timestamp)
             w == PutMember(v.keys, v.items, Word.timestamp, ts)
         IN JObj(w.keys, w.items)
    ELSE metadata

\* safeRemoveItem(key): the entry is removed
safeRemoveItem_Keeps(content) == content
safeRemoveItem(content) == NoItem

\* if (migrated.checksum) and the checksum computed of the data is another
ChecksumMismatch(metadata) ==
    LET checksum == Member(metadata, Word.checksum)
        falsy == \/ checksum.t \in {"null", "false"}
                 \/ checksum.t = "number" /\ checksum.n = 0
                 \/ checksum.t = "string" /\ checksum.chars = <<>>
    IN  /\ ~falsy
        /\ checksum.t # "string" \/ computeChecksum(Member(metadata, Word.data)) # checksum.chars

\* getItem(key) on the content of the key at time t: what it returns or
\* raises, what it warns of, and the content it leaves
getItem(content, t) ==
    IF ~content.has \/ content.text = <<>>
    THEN [result |-> "value", value |-> JNull, warn |-> "none", store |-> content]
    ELSE IF ~isValidJSON(content.text) \/ ~JSON_parse(content.text).ok
    THEN [result |-> "StorageCorruptionError", value |-> JNull, warn |-> "none",
          store |-> safeRemoveItem(content)]
    ELSE LET parsed == JSON_parse(content.text).value IN
         IF ~isValidMetadata(parsed)
         THEN [result |-> "value", value |-> parsed, warn |-> "legacy", store |-> content]
         ELSE LET migrated == migrateData(parsed, t) IN
              [result |-> "value", value |-> Member(migrated, Word.data),
               warn |-> IF ChecksumMismatch(migrated) THEN "checksum" ELSE "none",
               store |-> content]

\* setItem(key, value) at time t: the text it stores
setItem(value, t) ==
    LET serializedValue == JSON_stringify(value) IN
    IF ~isValidJSON(serializedValue)
    THEN [result |-> "StorageCorruptionError", store |-> NoItem]
    ELSE [result |-> "ok",
          store |-> Raw(JSON_stringify(StorageMetadata(value, CURRENT_STORAGE_VERSION, t, computeChecksum(value))))]

\* hasItem(key): item !== null && item !== ''
hasItem(content) == content.has /\ content.text # <<>>

(***************************************************************************)
(* The storage manager's operations on the key.                            *)
(***************************************************************************)
GetItem ==
    /\ MayCall
    /\ \E r \in {getItem(rawItem, now)} :
       /\ rawItem' = r.store
       /\ ret' = Returned("getItem", [result |-> r.result, value |-> r.value, warn |-> r.warn])
    /\ calls' = calls + 1
    /\ UNCHANGED <<now, libVars, online, storeVars, remoteVars, queueVars, refreshes, tasks>>

SetItem(value) ==
    /\ MayCall
    /\ \E r \in {setItem(value, now)} :
       /\ rawItem' = IF r.result = "ok" THEN r.store ELSE rawItem
       /\ ret' = Returned("setItem", [result |-> r.result, value |-> value, warn |-> "none"])
    /\ calls' = calls + 1
    /\ UNCHANGED <<now, libVars, online, storeVars, remoteVars, queueVars, refreshes, tasks>>

\* setItem when window.localStorage.setItem throws: a quota error is raised as
\* StorageQuotaExceededError, any other as StorageCorruptionError
SetItemFails(value, error) ==
    /\ MayCall
    /\ setItem(value, now).result = "ok"
    /\ ret' = Returned("setItem", [result |-> error, value |-> value, warn |-> "none"])
    /\ calls' = calls + 1
    /\ UNCHANGED <<now, rawItem, libVars, online, storeVars, remoteVars, queueVars, refreshes, tasks>>

RemoveItem ==
    /\ MayCall
    /\ rawItem' = NoItem
    /\ ret' = Returned("removeItem", [result |-> "ok", value |-> JNull, warn |-> "none"])
    /\ calls' = calls + 1
    /\ UNCHANGED <<now, libVars, online, storeVars, remoteVars, queueVars, refreshes, tasks>>

\* values the library stores, and values of every other JSON type
UserValue == JObj(<<Word.id, Word.email>>, <<JStr(<<117, 49>>), JStr(<<97>>)>>)
MixedValue ==
    JArr(<<JNum(0), JStr(<<97, Ch.quote, Ch.backslash>>), JBool(FALSE), JArr(<<>>), JObj(<<>>, <<>>), JNull>>)
EnvelopeLike == JObj(<<Word.data, Word.version, Word.timestamp>>, <<JNum(7), JNum(0), JNum(0)>>)
JsonValues == {JNull, JBool(TRUE), JNum(StartTime), JStr(<<>>), MixedValue, UserValue, EnvelopeLike}

\* what an earlier page load may have left under the key: nothing, an empty
\* text, an entry written by setItem, a text cut short or otherwise not JSON,
\* an entry whose data was changed after it was written, an entry of the
\* format before the wrapper, an entry of an older version or without checksum
EarlierTime == StartTime - 1
Written(value) == setItem(value, EarlierTime).store
CorruptItems ==
    LET Truncations(text) == {SubSeq(text, 1, n) : n \in 1..(Len(text) - 1)}
    IN  {Raw(text) : text \in Truncations(Written(UserValue).text)}
        \cup {Raw(<<120>>), Raw(<<Ch.lbrace, Ch.rbracket>>), Raw(<<Ch.zero, Ch.zero + 1>>)}
Tampered(written, data) ==
    Raw(JSON_stringify(StorageMetadata(data, CURRENT_STORAGE_VERSION, EarlierTime, computeChecksum(written))))
TamperedValues == {JNull, JStr(<<>>), UserValue}
StoredItems ==
    LET TamperedItems == {Tampered(w, d) : w, d \in TamperedValues} \ {Written(v) : v \in TamperedValues}
        LegacyItems == {Raw(JSON_stringify(v)) : v \in JsonValues}
        Older(v, n) == JObj(<<Word.data, Word.version, Word.timestamp>>, <<v, JNum(n), JNum(EarlierTime)>>)
        OlderItems == {Raw(JSON_stringify(Older(v, n))) : v \in {JNull, UserValue}, n \in {0, CURRENT_STORAGE_VERSION}}
    IN  {NoItem, Raw(<<>>)} \cup {Written(v) : v \in JsonValues} \cup CorruptItems
        \cup TamperedItems \cup LegacyItems \cup OlderItems

InitStorage ==
    /\ now = StartTime
    /\ rawItem \in StoredItems
    /\ InitLib
    /\ online = TRUE
    /\ ab_user = NoUser
    /\ ab_user_timestamp = NoTime
    /\ ab_variants = Missing
    /\ ab_variants_timestamp = NoTime
    /\ ab_sync_queue = <<>>
    /\ remoteUsers = [u \in UserIds |-> Null]
    /\ remoteVariants = [p \in UserIds \X Keys |-> Null]
    /\ procs = EmptyBag
    /\ nextOpId = 1
    /\ syncHandlers = SyncOperationTypes
    /\ failures = <<>>
    /\ refreshes = EmptyBag
    /\ tasks = EmptyBag
    /\ calls = 0
    /\ ret = [n |-> 0, op |-> "none"]

NextStorage ==
    \/ GetItem
    \/ \E v \in JsonValues : SetItem(v)
    \/ \E v \in JsonValues : SetItemFails(v, "StorageQuotaExceededError")
    \/ \E v \in JsonValues : SetItemFails(v, "StorageCorruptionError")
    \/ RemoveItem
    \/ Tick

SpecStorage == InitStorage /\ [][NextStorage]_vars

\* a call of the storage manager has just returned
StorageCall(op) == ret'.n # ret.n /\ ret'.op = op

\* C19: a getItem that directly follows a successful setItem of a value
\* returns a value equal to it in every part, whatever the key held before
\* and however much time passed in between; after removeItem the key has no
\* item, and a getItem that directly follows returns null.
C19_RoundTrip ==
    /\ [][(ret.op = "setItem" /\ ret.result = "ok" /\ StorageCall("getItem"))
            => (ret'.result = "value" /\ ret'.value = ret.value /\ rawItem' = rawItem)]_vars
    /\ [][(ret.op = "removeItem" /\ StorageCall("getItem"))
            => (ret'.result = "value" /\ ret'.value = JNull)]_vars
    /\ [](ret.op = "removeItem" => ~hasItem(rawItem))
C19_Witness ==
    /\ ret.n = 2 /\ ret.op = "getItem" /\ ret.result = "value"
    /\ ret.value = MixedValue
    /\ rawItem = setItem(MixedValue, StartTime + TickMs).store /\ now > StartTime + TickMs

signature_KeysOnly(experimentKey, splits) ==
    CodeUnits[experimentKey] \o CodeUnits["|"]
    \o JSON_stringify(JObj([i \in 1..Len(splits) |-> CodeUnits[splits[i].key]],
                           [i \in 1..Len(splits) |-> JNull]))

\* signature = experimentKey + '|' + JSON.stringify(splits): a finite weight
\* is written as a number, NaN and the infinities are written as null
signature(experimentKey, splits) ==
    CodeUnits[experimentKey] \o CodeUnits["|"]
    \o JSON_stringify(JObj([i \in 1..Len(splits) |-> CodeUnits[splits[i].key]],
                           [i \in 1..Len(splits) |->
                               IF splits[i].finite THEN JNum(splits[i].weight) ELSE JNull]))

\* a getNormalizedSplitsCached whose cache is keyed by the experiment alone
getNormalizedSplitsCached_ByKey(map, experimentKey, splits) ==
    LET Cached(sig) ==
            IF sig \in DOMAIN map THEN [buckets |-> map[sig], cache |-> map]
            ELSE LET normalized == normalizeSplits(splits)
                 IN  [buckets |-> normalized, cache |-> (sig :> normalized) @@ map]
    IN  Cached(CodeUnits[experimentKey])

\* getNormalizedSplitsCached on the cache map: the buckets returned and the
\* cache left behind
getNormalizedSplitsCached(map, experimentKey, splits) ==
    LET Cached(sig) ==
            IF sig \in DOMAIN map THEN [buckets |-> map[sig], cache |-> map]
            ELSE LET normalized == normalizeSplits(splits)
                 IN  [buckets |-> normalized, cache |-> (sig :> normalized) @@ map]
    IN  Cached(signature(experimentKey, splits))

\* the loop of variantAssigner.getVariant: the first bucket whose boundary
\* exceeds the hash, else the last
bucketFor(buckets, h) ==
    LET hits == {i \in 1..Len(buckets) : BelowBoundary(h, buckets[i])}
    IN  IF hits = {} THEN buckets[Len(buckets)].key
        ELSE buckets[CHOOSE i \in hits : \A j \in hits : i <= j].key

\* setHashingConfig: hashingConfig = { ...hashingConfig, ...config }; config
\* is a record of the fields the options give
setHashingConfig(current, config) == config @@ current

NormalizeSplits(splits) ==
    /\ MayCall
    /\ ret' = Returned("normalizeSplits", [splits |-> splits, result |-> normalizeSplits(splits)])
    /\ calls' = calls + 1
    /\ UNCHANGED <<now, rawItem, libVars, online, storeVars, remoteVars, queueVars, refreshes, tasks>>

\* variantAssigner.getVariant(user, experimentKey, splits)
AssignerGetVariant(user, experimentKey, splits) ==
    /\ MayCall
    /\ \E c \in {getNormalizedSplitsCached(splitsCache, experimentKey, splits)} :
         /\ splitsCache' = c.cache
         /\ ret' = Returned("assign",
                [user |-> user, experimentKey |-> experimentKey, splits |-> splits,
                 config |-> hashingConfig, hit |-> (c.cache = splitsCache),
                 variant |-> bucketFor(c.buckets,
                                hashToBucketWithSalt(user, experimentKey,
                                                     hashingConfig.salt, hashingConfig.version))])
    /\ calls' = calls + 1
    /\ UNCHANGED <<now, rawItem, hashingConfig, currentAdapter, subscriptions, remoteExperiments,
                   registry, pollers, online, storeVars,
                   remoteVars, queueVars, refreshes, tasks>>

\* clearNormalizedSplitsCache()
ClearNormalizedSplitsCache ==
    /\ splitsCache # <<>>
    /\ splitsCache' = <<>>
    /\ UNCHANGED <<now, rawItem, hashingConfig, currentAdapter, subscriptions, remoteExperiments,
                   registry, pollers, online, storeVars,
                   remoteVars, queueVars, refreshes, tasks, histVars>>

\* setHashingConfig(config)
SetHashingConfig(config) ==
    /\ setHashingConfig(hashingConfig, config) # hashingConfig
    /\ hashingConfig' = setHashingConfig(hashingConfig, config)
    /\ UNCHANGED <<now, rawItem, splitsCache, currentAdapter, subscriptions, remoteExperiments,
                   registry, pollers, online, storeVars,
                   remoteVars, queueVars, refreshes, tasks, histVars>>

\* split maps of up to three variants with positive, zero and negative
\* weights, NaN and the infinities, in every insertion order
SplitMaps ==
    LET WeightsOf(key) ==
            {[key |-> key, weight |-> w, finite |-> TRUE] : w \in -1..2}
            \cup {[key |-> key, weight |-> sign, finite |-> FALSE] : sign \in {-1, 0, 1}}
        Entries == UNION {WeightsOf(key) : key \in {"A", "B", "control"}}
        Lists == {<<>>} \cup {<<e>> : e \in Entries}
                 \cup {<<e, f>> : e \in Entries, f \in Entries}
                 \cup {<<e, f, g>> : e \in Entries, f \in Entries, g \in Entries}
    IN  {m \in Lists : \A i, j \in 1..Len(m) : m[i].key = m[j].key => i = j}

\* the split maps handed to the assigner
AssignedMaps ==
    {m \in SplitMaps :
        /\ Len(m) <= 2
        /\ \A i \in 1..Len(m) : m[i].key # "control" /\ m[i].weight \in {0, 1}}

\* Partial<HashingConfig>: the salt, the version, or both
HashingOptions == {[salt |-> "ablib"], [version |-> 2], [salt |-> "ablib", version |-> 2]}

\* the normaliser applied to every split map
NextSplits == \E splits \in SplitMaps : NormalizeSplits(splits)

SpecSplits == Init /\ [][NextSplits]_vars

\* the assigner called with the cache and the hashing configuration changing
\* between the calls
NextAssign ==
    \/ \E user \in InitUsers, k \in Keys, splits \in AssignedMaps : AssignerGetVariant(user, k, splits)
    \/ ClearNormalizedSplitsCache
    \/ \E config \in HashingOptions : SetHashingConfig(config)

SpecAssign == Init /\ [][NextAssign]_vars

\* cumulative of bucket a <= cumulative of bucket b, for two buckets of one
\* list (the same sum): epsilon is far below the least difference of two
\* fractions, so the weights decide first and the steps only on a tie
BoundaryLeq(a, b) ==
    \/ b.one
    \/ ~a.one /\ (a.num < b.num \/ (a.num = b.num /\ a.steps <= b.steps))

\* C21: for every split map, whatever mix of positive, zero, negative and
\* non-finite weights it holds, the list normalizeSplits returns is not empty,
\* its boundaries never decrease from one bucket to the next, and the boundary
\* of its last bucket is exactly 1.
C21_NormalizedWellFormed ==
    ret.op = "normalizeSplits" =>
        /\ Len(ret.result) >= 1
        /\ \A i \in 1..(Len(ret.result) - 1) : BoundaryLeq(ret.result[i], ret.result[i + 1])
        /\ ret.result[Len(ret.result)].one

\* a map with a weight that is not finite and two weights that count
\* was normalised to two buckets, the first of them below 1
C21_Witness ==
    /\ ret.op = "normalizeSplits"
    /\ \E i \in 1..Len(ret.splits) : ~ret.splits[i].finite
    /\ Len(ret.result) = 2 /\ ~ret.result[1].one

\* C22: for every split map that is empty or whose weights are all zero,
\* normalizeSplits returns exactly one bucket, with key 'control' and boundary
\* 1, whatever variant keys the map holds.
C22_ZeroTotalGivesControl ==
    (/\ ret.op = "normalizeSplits"
     /\ \A i \in 1..Len(ret.splits) : ret.splits[i].finite /\ ret.splits[i].weight = 0)
        => (Len(ret.result) = 1 /\ ret.result[1].key = "control" /\ ret.result[1].one)

\* C23: assignment is deterministic.  The variant a call of the assigner
\* returns is the one the identity, the experiment key, the splits, the salt
\* and the version determine on their own, whatever calls were made before and
\* whatever the cache of normalised splits holds, so two calls with the same
\* five inputs return the same variant; and the variant is the key of a bucket
\* of the normalised splits.
C23_Deterministic ==
    /\ [](ret.op = "assign" =>
            /\ ret.variant = assign(ret.user, ret.experimentKey, ret.splits,
                                    ret.config.salt, ret.config.version)
            /\ \E b \in {normalizeSplits(ret.splits)} : \E i \in 1..Len(b) : ret.variant = b[i].key)
    /\ [][(/\ ret.op = "assign" /\ ret'.op = "assign" /\ ret'.n # ret.n
           /\ ret'.user = ret.user /\ ret'.experimentKey = ret.experimentKey
           /\ ret'.splits = ret.splits /\ ret'.config = ret.config)
            => ret'.variant = ret.variant]_vars

\* the second of two calls was served from the cache, under a salt and a
\* version set after the first, and for splits of two buckets
C23_Witness ==
    /\ ret.op = "assign" /\ ret.n = 2 /\ ret.hit
    /\ ret.config = [salt |-> "ablib", version |-> 2]
    /\ Len(normalizeSplits(ret.splits)) = 2

(***************************************************************************)
(* Bootstrap (index.ts initializeLibrary), the subscription to experiment  *)
(* updates (services/realtimeListener.ts) and the polling loop             *)
(* (startExperimentPolling).                                               *)
(***************************************************************************)
MaxPollers == 1

\* subscribeToExperimentUpdates() with adapter in force: what it returns or
\* throws, and whether a callback is registered with the adapter.  Only a
\* RealtimeConnectionError is caught; any other error is thrown again.
subscribeToExperimentUpdates(adapter) ==
    CASE adapter.name = Null ->
            [result |-> "AdapterNotInitializedError", registers |-> FALSE]
      [] adapter.name # Null /\ adapter.subscribeExperiments = "absent" ->
            [result |-> "noop", registers |-> FALSE]
      [] adapter.name # Null /\ adapter.subscribeExperiments = "subscribes" ->
            [result |-> "unsubscribe", registers |-> TRUE]
      [] adapter.name # Null /\ adapter.subscribeExperiments = "RealtimeConnectionError" ->
            [result |-> "noop", registers |-> FALSE]
      [] OTHER ->
            [result |-> adapter.subscribeExperiments, registers |-> FALSE]

\* initializeLibrary(options); options.hashing is the record of the fields
\* given, the empty record when the options have no hashing
InitializeLibrary(options) ==
    /\ MayCall
    /\ currentAdapter' = options.adapter
    /\ hashingConfig' = IF DOMAIN options.hashing = {} THEN hashingConfig
                        ELSE setHashingConfig(hashingConfig, options.hashing)
    /\ \E s \in {subscribeToExperimentUpdates(options.adapter)} :
         /\ subscriptions' = IF s.registers THEN subscriptions (+) SetToBag({options.adapter})
                             ELSE subscriptions
         /\ ret' = Returned("initializeLibrary", [options |-> options, result |-> s.result])
    /\ calls' = calls + 1
    /\ UNCHANGED <<now, rawItem, splitsCache, remoteExperiments, registry, pollers, online,
                   storeVars, remoteVars, queueVars, refreshes, tasks>>

\* the function initializeLibrary returned is called: the adapter's
\* unsubscribe removes the callback
Unsubscribe(adapter) ==
    /\ BagIn(adapter, subscriptions)
    /\ subscriptions' = subscriptions (-) SetToBag({adapter})
    /\ UNCHANGED <<now, rawItem, splitsCache, hashingConfig, currentAdapter, remoteExperiments,
                   registry, pollers, online, storeVars, remoteVars, queueVars, refreshes, tasks,
                   histVars>>

\* computeSignature(rows) of the polling loop: JSON.stringify of the rows'
\* keys and splits (the rows are sorted by key; there is one)
computeSignature(rows) ==
    JSON_stringify(JArr([r \in 1..Len(rows) |->
        JObj(<<CodeUnits["key"], CodeUnits["splits"]>>,
             <<JStr(CodeUnits[rows[r].key]),
               JObj([i \in 1..Len(rows[r].splits) |-> CodeUnits[rows[r].splits[i].key]],
                    [i \in 1..Len(rows[r].splits) |->
                        IF rows[r].splits[i].finite THEN JNum(rows[r].splits[i].weight)
                        ELSE JNull])>>)]))

\* a polling loop: lastSignature, the place of its tick ("timer" between two
\* ticks, "fetching" while getExperiments is awaited, "refreshing" while
\* experimentRegistry.init is awaited), the signature sig of the rows of the
\* tick, and stopped
NewPoller == [lastSignature |-> <<>>, pc |-> "timer", sig |-> <<>>, stopped |-> FALSE]

\* tick() up to its first await: getRemoteStorageAdapter() throws when no
\* adapter is set, and the next tick is scheduled at once
TickStarts(p) == [p EXCEPT !.pc = IF currentAdapter = NoAdapter THEN "timer" ELSE "fetching"]

\* the finally block of tick(): the loops after the tick of p ended as q
TickEnds(p, q) ==
    IF p.stopped THEN pollers (-) SetToBag({p})
    ELSE (pollers (-) SetToBag({p})) (+) SetToBag({[q EXCEPT !.pc = "timer", !.sig = <<>>]})

\* startExperimentPolling(): a loop with lastSignature = '' whose first tick
\* runs at once
StartExperimentPolling ==
    /\ BagCardinality(pollers) < MaxPollers
    /\ pollers' = pollers (+) SetToBag({TickStarts(NewPoller)})
    /\ UNCHANGED <<now, rawItem, splitsCache, hashingConfig, currentAdapter, subscriptions,
                   remoteExperiments, registry, online, storeVars, remoteVars, queueVars,
                   refreshes, tasks, histVars>>

\* the timer of the loop p fires: tick() runs up to its first await
PollTick(p) ==
    /\ BagIn(p, pollers)
    /\ p.pc = "timer" /\ ~p.stopped
    /\ currentAdapter # NoAdapter
    /\ pollers' = (pollers (-) SetToBag({p})) (+) SetToBag({TickStarts(p)})
    /\ UNCHANGED <<now, rawItem, splitsCache, hashingConfig, currentAdapter, subscriptions,
                   remoteExperiments, registry, online, storeVars, remoteVars, queueVars,
                   refreshes, tasks, histVars>>

\* getExperiments() of the tick of p answers with the rows, or throws: when
\* the signature of the rows differs from lastSignature the cache of
\* normalised splits is cleared and experimentRegistry.init() is awaited
PollFetched(p, answer) ==
    /\ BagIn(p, pollers)
    /\ p.pc = "fetching"
    /\ \E sig \in {computeSignature(remoteExperiments)} :
         IF answer = "rows" /\ sig # p.lastSignature
         THEN /\ splitsCache' = <<>>
              /\ pollers' = (pollers (-) SetToBag({p}))
                            (+) SetToBag({[p EXCEPT !.pc = "refreshing", !.sig = sig]})
         ELSE /\ splitsCache' = splitsCache
              /\ pollers' = TickEnds(p, p)
    /\ UNCHANGED <<now, rawItem, hashingConfig, currentAdapter, subscriptions, remoteExperiments,
                   registry, online, storeVars, remoteVars, queueVars, refreshes, tasks, histVars>>

\* an experimentRegistry.init() that counts as done whether it failed or not
PollRefreshed_RecordsAlways(p, answer) ==
    /\ BagIn(p, pollers)
    /\ p.pc = "refreshing"
    /\ registry' = IF answer = "rows" THEN remoteExperiments ELSE registry
    /\ pollers' = TickEnds(p, [p EXCEPT !.lastSignature = p.sig])
    /\ UNCHANGED <<now, rawItem, splitsCache, hashingConfig, currentAdapter, subscriptions,
                   remoteExperiments, online, storeVars, remoteVars, queueVars, refreshes, tasks,
                   histVars>>

\* experimentRegistry.init() of the tick of p: its getExperiments() answers
\* with the rows, which replace the registry, and lastSignature = sig; or it
\* throws, and lastSignature stays
PollRefreshed(p, answer) ==
    /\ BagIn(p, pollers)
    /\ p.pc = "refreshing"
    /\ registry' = IF answer = "rows" THEN remoteExperiments ELSE registry
    /\ pollers' = TickEnds(p, IF answer = "rows" THEN [p EXCEPT !.lastSignature = p.sig] ELSE p)
    /\ UNCHANGED <<now, rawItem, splitsCache, hashingConfig, currentAdapter, subscriptions,
                   remoteExperiments, online, storeVars, remoteVars, queueVars, refreshes, tasks,
                   histVars>>

\* the function startExperimentPolling returned is called: stopped = true.
\* A timer that fires afterwards finds stopped and returns.
StopPolling(p) ==
    /\ BagIn(p, pollers)
    /\ ~p.stopped
    /\ pollers' = IF p.pc = "timer" THEN pollers (-) SetToBag({p})
                  ELSE (pollers (-) SetToBag({p})) (+) SetToBag({[p EXCEPT !.stopped = TRUE]})
    /\ UNCHANGED <<now, rawItem, splitsCache, hashingConfig, currentAdapter, subscriptions,
                   remoteExperiments, registry, online, storeVars, remoteVars, queueVars,
                   refreshes, tasks, histVars>>

\* the splits of the experiment are changed in the remote store
ExperimentsChange ==
    /\ remoteExperiments' \in {ExperimentRows(splits) : splits \in SplitSets} \ {remoteExperiments}
    /\ UNCHANGED <<now, rawItem, splitsCache, hashingConfig, currentAdapter, subscriptions,
                   registry, pollers, online, storeVars, remoteVars, queueVars, refreshes, tasks,
                   histVars>>

\* the options of initializeLibrary
LibraryOptions == [adapter : Adapters, hashing : HashingOptions \cup {<<>>}]

\* a freshly loaded page: no adapter, the default hashing configuration, no
\* subscription, an empty registry
InitBootstrap ==
    /\ now = StartTime
    /\ rawItem = NoItem
    /\ splitsCache = <<>>
    /\ hashingConfig = [salt |-> DefaultSalt, version |-> DefaultVersion]
    /\ currentAdapter = NoAdapter
    /\ subscriptions = EmptyBag
    /\ remoteExperiments = ExperimentRows(EvenSplits)
    /\ registry = <<>>
    /\ pollers = EmptyBag
    /\ online = TRUE
    /\ ab_user = NoUser
    /\ ab_user_timestamp = NoTime
    /\ ab_variants = Missing
    /\ ab_variants_timestamp = NoTime
    /\ ab_sync_queue = <<>>
    /\ remoteUsers = [u \in UserIds |-> Null]
    /\ remoteVariants = [p \in UserIds \X Keys |-> Null]
    /\ procs = EmptyBag
    /\ nextOpId = 1
    /\ syncHandlers = SyncOperationTypes
    /\ failures = <<>>
    /\ refreshes = EmptyBag
    /\ tasks = EmptyBag
    /\ calls = 0
    /\ ret = [n |-> 0, op |-> "none"]

NextBootstrap ==
    \/ \E options \in LibraryOptions : InitializeLibrary(options)
    \/ \E adapter \in Adapters : Unsubscribe(adapter)
    \/ StartExperimentPolling
    \/ \E p \in BagToSet(pollers) : PollTick(p)
    \/ \E p \in BagToSet(pollers), answer \in {"rows", "throws"} : PollFetched(p, answer)
    \/ \E p \in BagToSet(pollers), answer \in {"rows", "throws"} : PollRefreshed(p, answer)
    \/ \E p \in BagToSet(pollers) : StopPolling(p)
    \/ ExperimentsChange

SpecBootstrap == InitBootstrap /\ [][NextBootstrap]_vars

\* the timer of a polling loop that was started and not stopped fires
SpecBootstrapFair ==
    InitBootstrap /\ [][NextBootstrap]_vars /\ WF_vars(\E p \in BagToSet(pollers) :
                \/ PollTick(p)
                \/ \E answer \in {"rows", "throws"} : PollFetched(p, answer) \/ PollRefreshed(p, answer))

\* C24: for any failure raised while the experiment subscription is set up
\* (adapter.subscribeExperiments throwing any error, a connection error being
\* one), initializeLibrary does not raise and returns an unsubscribe function
\* that does nothing.
C24_SetupFailureDegrades ==
    (/\ ret.op = "initializeLibrary"
     /\ ret.options.adapter.subscribeExperiments \in {"RealtimeConnectionError", "Error"})
        => ret.result = "noop"

\* C28: when the adapter given to initializeLibrary has no subscribeExperiments,
\* the experiment list is still fetched again and again by a polling loop, so
\* that a change made to the experiments in the remote store after bootstrap
\* is eventually seen by the library (the registry is loaded with it).
C28_PollingFallback ==
    (/\ ret.op = "initializeLibrary" /\ ret.result = "noop"
     /\ currentAdapter.subscribeExperiments = "absent"
     /\ remoteExperiments = ExperimentRows(SkewedSplits))
        ~> (registry = remoteExperiments)

\* what one initializeLibrary(options) leaves on a freshly loaded page
SingleCall(options) ==
    [adapter |-> options.adapter,
     hashing |-> options.hashing @@ [salt |-> DefaultSalt, version |-> DefaultVersion],
     subscriptions |-> IF options.adapter.subscribeExperiments = "subscribes"
                       THEN SetToBag({options.adapter}) ELSE EmptyBag]

\* C29: after any sequence of initializeLibrary calls, the adapter in force,
\* the salt and the version, and the subscriptions that are active are those
\* a single initializeLibrary call with the options of the last call leaves.
C29_LastCallWins ==
    [][(MayCall /\ calls' = calls + 1 /\ ret'.op = "initializeLibrary")
        => (/\ currentAdapter' = SingleCall(ret'.options).adapter
            /\ hashingConfig' = SingleCall(ret'.options).hashing
            /\ subscriptions' = SingleCall(ret'.options).subscriptions)]_vars

\* C25: when no identity is cached, a notification of the listener does
\* nothing: no remote call is started (no refresh of the identity, no call of
\* the variant service), no variant is assigned, nothing is appended to the
\* sync queue and nothing is written to the local cache, whatever experiments
\* the notification delivers.
C25_NoIdentityNoOp ==
    [][((\E exps \in ExperimentLists : ListenerNotify(exps, EvenSplits)) /\ ab_user = NoUser)
        => (/\ UNCHANGED <<storeVars, queueVars, remoteVars, refreshes, tasks>>
            /\ ret'.op = "listener" /\ ret'.result = "no user")]_vars

\* the listener was notified of two experiments while no identity was cached,
\* and returned
C25_Witness ==
    /\ ret.op = "listener" /\ ret.result = "no user" /\ ret.exps = <<"e1", "e2">>
    /\ ab_user = NoUser /\ ab_variants = Missing /\ ab_sync_queue = <<>>
    /\ refreshes = EmptyBag /\ tasks = EmptyBag

(***************************************************************************)
(* getUser on every content of the local cache: an identity or none, with  *)
(* its timestamp or without.                                               *)
(***************************************************************************)
InitGetUser ==
    /\ now = StartTime
    /\ rawItem = NoItem
    /\ InitLib
    /\ online = TRUE
    /\ ab_user \in Identities \cup {NoUser}
    /\ ab_user_timestamp \in {NoTime, StartTime}
    /\ ab_variants = Missing
    /\ ab_variants_timestamp = NoTime
    /\ ab_sync_queue = <<>>
    /\ remoteUsers \in {[u \in UserIds |-> Null], [u \in UserIds |-> "f@x"]}
    /\ remoteVariants = [p \in UserIds \X Keys |-> Null]
    /\ procs = EmptyBag
    /\ nextOpId = 1
    /\ syncHandlers = SyncOperationTypes
    /\ failures = <<>>
    /\ refreshes = EmptyBag
    /\ tasks = EmptyBag
    /\ calls = 0
    /\ ret = [n |-> 0, op |-> "none"]

NextGetUser ==
    \/ GetUser
    \/ \E u \in UserIds : RefreshSucceeds(u)
    \/ \E u \in UserIds : RefreshFails(u)
    \/ Tick

SpecGetUser == InitGetUser /\ [][NextGetUser]_vars

\* C27: getUser returns at once the identity that is in the local cache (or
\* none), without waiting for a remote answer and without changing the cache,
\* whether the entry is fresh or stale; it starts a refresh of the identity
\* from the remote store exactly when an identity is cached and its timestamp
\* is missing or more than five minutes old.
C27_GetUserStaleWhileRevalidate ==
    [][(ret'.n # ret.n /\ ret'.op = "getUser")
        => (/\ ret'.user = ab_user
            /\ UNCHANGED <<storeVars, queueVars, remoteVars, tasks>>
            /\ refreshes' =
                  IF /\ ab_user # NoUser
                     /\ (ab_user_timestamp = NoTime \/ now - ab_user_timestamp > 5 * 60 * 1000)
                  THEN refreshes (+) SetToBag({ab_user.id})
                  ELSE refreshes)]_vars

\* getUser returned an identity whose timestamp was exactly five minutes old
\* and started no refresh; the remote store holds another email for it
C27_Witness ==
    /\ ret.op = "getUser" /\ ret.user # NoUser /\ ret.user = ab_user
    /\ now - ab_user_timestamp = 5 * 60 * 1000
    /\ remoteUsers[ab_user.id] # Null /\ remoteUsers[ab_user.id] # ab_user.email
    /\ refreshes = EmptyBag

C30_ReadThroughPopulates ==
    [][(ret'.n # ret.n /\ ret'.op = "getVariants" /\ ret'.answer = "rows")
        => (/\ ab_variants' = Stored(ret'.value)
            /\ ab_variants_timestamp' = now)]_vars

(***************************************************************************)
(* The cache of normalised splits on its own: getNormalizedSplitsCached    *)
(* called for any experiment and split map, the cache cleared in between.  *)
(***************************************************************************)
GetNormalizedSplitsCached(experimentKey, splits) ==
    /\ MayCall
    /\ \E c \in {getNormalizedSplitsCached(splitsCache, experimentKey, splits)} :
         /\ splitsCache' = c.cache
         /\ ret' = Returned("getNormalizedSplitsCached",
                            [experimentKey |-> experimentKey, splits |-> splits,
                             hit |-> (c.cache = splitsCache), result |-> c.buckets])
    /\ calls' = calls + 1
    /\ UNCHANGED <<now, rawItem, hashingConfig, currentAdapter, subscriptions, remoteExperiments,
                   registry, pollers, online, storeVars, remoteVars, queueVars, refreshes, tasks>>

\* the split maps of up to two variants the cache is asked for
CachedMaps ==
    {m \in SplitMaps :
        /\ Len(m) <= 2
        /\ \A i \in 1..Len(m) : m[i].key # "control" /\ (m[i].finite \/ m[i].weight >= 0)}

NextCache ==
    \/ \E k \in Keys, splits \in CachedMaps : GetNormalizedSplitsCached(k, splits)
    \/ ClearNormalizedSplitsCache

SpecCache == Init /\ [][NextCache]_vars

\* C38: the cache of normalised splits is transparent.  Whatever calls of
\* getNormalizedSplitsCached and clearNormalizedSplitsCache came before,
\* getNormalizedSplitsCached(key, splits) returns the list normalizeSplits(splits)
\* returns; a split map changed for an experiment is never given the buckets
\* of the experiment's earlier map.
C38_CacheTransparent ==
    ret.op = "getNormalizedSplitsCached" => ret.result = normalizeSplits(ret.splits)

\* the second call was for the experiment of the first with another split
\* map of two buckets: the cache holds both maps of the experiment
C38_Witness ==
    /\ ret.op = "getNormalizedSplitsCached" /\ ret.n = 2 /\ ~ret.hit
    /\ Len(ret.result) = 2
    /\ Cardinality(DOMAIN splitsCache) = 2
    /\ \A sig \in DOMAIN splitsCache : SubSeq(sig, 1, 2) = CodeUnits[ret.experimentKey]

\* ---------------------------------------------------------------------------
\* The polling loop next to a page that asks for normalised splits
\* ---------------------------------------------------------------------------

NextPolling ==
    \/ \E k \in Keys, splits \in SplitSets : GetNormalizedSplitsCached(k, splits)
    \/ StartExperimentPolling
    \/ \E p \in BagToSet(pollers) : PollTick(p)
    \/ \E p \in BagToSet(pollers), answer \in {"rows", "throws"} : PollFetched(p, answer)
    \/ \E p \in BagToSet(pollers), answer \in {"rows", "throws"} : PollRefreshed(p, answer)
    \/ \E p \in BagToSet(pollers) : StopPolling(p)
    \/ ExperimentsChange

SpecPolling == Init /\ [][NextPolling]_vars

\* the signatures the polling loops have recorded
Recorded == {q.lastSignature : q \in BagToSet(pollers)} \ {<<>>}

\* the ticks that await experimentRegistry.init()
Refreshing ==
    {[lastSignature |-> q.lastSignature, sig |-> q.sig] :
        q \in {r \in BagToSet(pollers) : r.pc = "refreshing"}}

\* the tick of the loop p is over and has recorded nothing
TickOverUnrecorded(p) ==
    p.stopped \/ BagIn([p EXCEPT !.pc = "timer", !.sig = <<>>], pollers')

\* C39: the refresh of a polling loop is retried until it succeeds.  A loop
\* records a signature only in the step in which experimentRegistry.init() of
\* a tick that had cleared the cache of normalised splits succeeds, and it is
\* the signature of the rows of that tick; a getExperiments() or an init()
\* that throws leaves the recorded signature, and the registry, as they were
\* and the loop back at its timer, and a tick that then fetches rows whose
\* signature differs from the recorded one clears the cache and starts the
\* refresh; a tick whose rows have the recorded signature clears nothing and
\* refreshes nothing; a stopped loop never has a timer pending.
C39_RefreshRetriedUntilSuccess ==
    /\ [][/\ \A s \in Recorded' \ Recorded :
                \E p \in BagToSet(pollers) :
                    /\ p.pc = "refreshing" /\ p.sig = s
                    /\ PollRefreshed(p, "rows")
                    /\ registry' = remoteExperiments
          /\ Refreshing' \ Refreshing # {} => splitsCache' = <<>>
          /\ \A p \in BagToSet(pollers) :
                /\ PollFetched(p, "throws") \/ PollRefreshed(p, "throws")
                      => /\ Recorded' \subseteq Recorded
                         /\ registry' = registry
                         /\ TickOverUnrecorded(p)
                /\ PollFetched(p, "throws") => splitsCache' = splitsCache
                /\ PollFetched(p, "rows") /\ computeSignature(remoteExperiments) = p.lastSignature
                      => /\ UNCHANGED <<splitsCache, registry>>
                         /\ TickOverUnrecorded(p)
                /\ PollFetched(p, "rows") /\ computeSignature(remoteExperiments) # p.lastSignature
                      => /\ splitsCache' = <<>>
                         /\ BagIn([p EXCEPT !.pc = "refreshing",
                                            !.sig = computeSignature(remoteExperiments)], pollers')
         ]_vars
    /\ [](\A p \in BagToSet(pollers) : p.stopped => p.pc # "timer")

\* the page had normalised splits cached, a tick cleared them, and its
\* refresh failed: the loop is back at its timer with no signature recorded
\* and the registry still empty, the remote rows being unchanged
C39_Witness ==
    /\ calls > 0 /\ splitsCache = <<>> /\ registry = <<>>
    /\ remoteExperiments = ExperimentRows(EvenSplits)
    /\ \E p \in BagToSet(pollers) : p.pc = "timer" /\ p.lastSignature = <<>> /\ ~p.stopped

\* after a failed refresh a later tick refreshed again and recorded the
\* signature of the rows now in the registry
C39_WitnessRetried ==
    /\ calls = MaxCalls /\ splitsCache = <<>>
    /\ registry = remoteExperiments
    /\ \E p \in BagToSet(pollers) :
          p.pc = "timer" /\ p.lastSignature = computeSignature(remoteExperiments)

\* ---------------------------------------------------------------------------
\* The retries counter of the persisted records
\* ---------------------------------------------------------------------------

\* the retries counter of the persisted record id
RetriesOf(q, id) == q[FindIndex(q, id)].retries

\* the delivery of the record id fails in this step
DeliveryFails(id) == \E p \in Running : p.pc = "sync" /\ p.ops[p.i].id = id /\ SyncFails(p)

\* every persisted record has a counter of 0 .. MAX_RETRIES - 1
C40_BelowCeiling ==
    \A k \in 1..Len(ab_sync_queue) : ab_sync_queue[k].retries \in 0..(MAX_RETRIES - 1)

\* the counter of a record that stays in the persisted queue never decreases
C40_NeverDecreases ==
    [][\A id \in OpIds :
          InQueue(ab_sync_queue, id) /\ InQueue(ab_sync_queue', id)
             => RetriesOf(ab_sync_queue', id) >= RetriesOf(ab_sync_queue, id)]_vars

\* C40: in every reachable state every record of the persisted queue has a
\* retries counter of 0 .. MAX_RETRIES - 1; the counter of a record never
\* decreases; and it increases by exactly 1 in a step in which the delivery of
\* the record fails, and in no other step.
C40_RetriesCounter ==
    /\ [](C40_BelowCeiling)
    /\ [][\A id \in OpIds :
             InQueue(ab_sync_queue, id) /\ InQueue(ab_sync_queue', id)
                => RetriesOf(ab_sync_queue', id)
                     = RetriesOf(ab_sync_queue, id) + (IF DeliveryFails(id) THEN 1 ELSE 0)]_vars

\* ---------------------------------------------------------------------------
\* Concurrent processByType invocations
\* ---------------------------------------------------------------------------

\* the invocations that have passed the record id to the sync function and
\* await its answer
InFlightFor(id) == {p \in Running : p.pc = "sync" /\ p.ops[p.i].id = id}

\* the sync function succeeds for the record id in this step
Delivers(id) == \E p \in InFlightFor(id) : SyncSucceeds(p)

\* at most one invocation awaits the sync function for the record id
AwaitedOnce(id) ==
    /\ Cardinality(InFlightFor(id)) <= 1
    /\ \A p \in InFlightFor(id) : CopiesIn(p, procs) = 1

\* C32: at-most-once delivery.  No record is awaited in the sync function by
\* two processByType invocations at the same time, and a record that was
\* delivered successfully (and removed from the persisted queue by that
\* delivery) is not delivered successfully again, whatever saves and online
\* flushes have started invocations of their own.
C32_AtMostOnceDelivery ==
    /\ [](\A id \in OpIds : AwaitedOnce(id))
    /\ [][\A id \in OpIds : Delivers(id) => InQueue(ab_sync_queue, id)]_vars

\* C33: no queued write is lost by interleaving.  A record that add() has
\* appended leaves the persisted queue only in a step in which its own
\* delivery succeeds, or in which its own delivery fails at the retry ceiling;
\* while it is queued its type, action and payload stay as they were added;
\* and a record that has left the queue never comes back, whatever add()
\* calls and processByType invocations interleave.
C33_NoQueuedWriteLost ==
    [][\A id \in OpIds :
          /\ InQueue(ab_sync_queue, id) /\ ~InQueue(ab_sync_queue', id)
                => \/ Delivers(id)
                   \/ DeliveryFails(id) /\ RetriesOf(ab_sync_queue, id) + 1 >= MAX_RETRIES
          /\ InQueue(ab_sync_queue, id) /\ InQueue(ab_sync_queue', id)
                => Snapshot(<<ab_sync_queue'[FindIndex(ab_sync_queue', id)]>>)
                     = Snapshot(<<ab_sync_queue[FindIndex(ab_sync_queue, id)]>>)
          /\ ~InQueue(ab_sync_queue, id) => ~InQueue(ab_sync_queue', id)]_vars

\* the first record was delivered and removed by one invocation while
\* another still awaits the sync function for it; the second record is still
\* queued, after one failed delivery of its own
C33_Witness ==
    /\ nextOpId = 3
    /\ Len(ab_sync_queue) = 1 /\ ab_sync_queue[1].id = 2 /\ ab_sync_queue[1].retries = 1
    /\ \E p \in Running : p.pc = "sync" /\ Len(p.ops) = 1 /\ p.ops[1].id = 1

\* ---------------------------------------------------------------------------
\* Saves next to service calls that await the remote store
\* ---------------------------------------------------------------------------

\* the call t gets the answer of the remote store in this step
AnsweredIn(t) ==
    \/ \E answer \in VariantAnswers : LookupAnswered(t, answer)
    \/ \E answer \in VariantsAnswers : VariantsAnswered(t, answer)

\* the cache holds the entry row
Cached(list, row) == \E k \in 1..Len(list) : list[k] = row

\* C34: no lost update in the variant cache.  When the last operation that
\* returned is saveUserVariantForExperiment(u, e2, v), its entry is in the
\* cache, and a call that read the cache before that save (its list has no
\* such entry) and awaits the remote store for another experiment gets its
\* answer, the entry (u, e2, v) is still in the cache afterwards.
C34_NoLostUpdate ==
    [][\A t \in Awaiting :
          /\ ret.op = "saveVariant" /\ ret.write = "ok"
          /\ Cached(ab_variants.list, UserVariant(ret.user, ret.key, ret.variant))
          /\ ~Cached(t.local.list, UserVariant(ret.user, ret.key, ret.variant))
          /\ t.pc = "lookup" /\ LookupKey(t) # ret.key
          /\ AnsweredIn(t)
          => Cached(ab_variants'.list, UserVariant(ret.user, ret.key, ret.variant))]_vars

\* ---------------------------------------------------------------------------
\* The background refresh of the identity next to saveUser and updateUser
\* ---------------------------------------------------------------------------

\* the record of the identity user is queued, not yet delivered
UserSyncPending(user) ==
    \E k \in 1..Len(ab_sync_queue) :
        ab_sync_queue[k].type = "user" /\ ab_sync_queue[k].data = user

\* C35: a background refresh never clobbers a newer local identity.  When the
\* last operation that returned is a successful saveUser(B) or updateUser(B),
\* the cache holds B and the sync record of B is still queued, the answer of a
\* refresh that is in flight leaves the cached identity B as it is.
C35_RefreshKeepsNewerIdentity ==
    [][\A u \in UserIds :
          /\ ret.op \in {"saveUser", "updateUser"} /\ ret.result = "ok"
          /\ ab_user = ret.arg
          /\ UserSyncPending(ret.arg)
          /\ RefreshSucceeds(u)
          => ab_user' = ab_user]_vars

\* ---------------------------------------------------------------------------
\* Freshness of the variant cache after an optimistic save
\* ---------------------------------------------------------------------------

\* the step is a call of saveUserVariantForExperiment that wrote the cache
IsSaveVariantCall == ret'.n # ret.n /\ ret'.op = "saveVariant" /\ ret'.write = "ok"

\* the entries of the list for other experiments than key
OtherEntries(list, key) == SelectSeq(list, LAMBDA row : row.experiment_key # key)

\* C37: freshness is per confirmation by the remote.  When the variant cache
\* is stale (nothing in it was fetched from the remote store, nor a write of
\* it confirmed, within the threshold) and saveUserVariantForExperiment saves
\* the variant of one experiment, the entries of the other experiments still
\* do not count as fresh: getVariantsByUserId would not serve the list from
\* the cache, and getUserVariantByExperimentLey would not serve those entries
\* from the cache, without the remote store.
C37_SaveLeavesOthersStale ==
    [][(/\ IsSaveVariantCall
        /\ isStale
        /\ OtherEntries(ab_variants.list, ret'.key) # <<>>)
         => /\ ~ServesLocally(ab_variants', IsStaleAt(ab_variants_timestamp', now'))
            /\ IsStaleAt(ab_variants_timestamp', now')]_vars

\* ---------------------------------------------------------------------------
\* The identity of the entries of the variant cache
\* ---------------------------------------------------------------------------

\* every entry of the variant cache belongs to the cached identity
CacheOfCachedIdentity ==
    \A k \in 1..Len(ab_variants.list) : ab_variants.list[k].user_id = ab_user.id

\* the records getUserVariantByExperimentLey(u, e) returned to the pass that
\* ended last (the rows of its array after those getVariantsByUserId
\* returned) have user_id = u
LookupsOfOwnIdentity ==
    (ret.op \in {"init", "listener"} /\ ret.result = "ok")
        => \A j \in (Len(ret.fetched) + 1)..Len(ret.variants) :
              ret.variants[j].user_id = ret.user.id

\* C36: variants never cross identities.  Every entry of the local variant
\* cache belongs to the identity that is cached, also after saveUser has
\* switched the identity while a pass for the previous one was in flight, and
\* every record a single-record lookup for the user u returned has user_id = u.
C36_NoCrossIdentity ==
    /\ CacheOfCachedIdentity
    /\ LookupsOfOwnIdentity

\* ---------------------------------------------------------------------------
\* updateUser of the library (updateUserWithReassignVariants)
\* ---------------------------------------------------------------------------

\* a reassignment that leaves the variant cache in place
CacheAfterRemove_Kept(local) == local

\* storageManager.removeItem('ab_variants')
CacheAfterRemove(local) == Missing

\* the loop over the experiments: variantAssigner.assign for the updated
\* identity, then saveUserVariantForExperiment, which writes the cache, adds
\* its record and starts processByType.  st is the cache list, the queue with
\* its next id and failure counts, the invocations in flight and the history
\* of the saves so far.
RECURSIVE SaveEach(_, _, _, _)
SaveEach(user, exps, splits, st) ==
    IF exps = <<>> THEN st
    ELSE LET key == Head(exps)
             variant == AssignTableFor[splits][user, key]
             q == QueueAdd(st.queue, st.nextId, "variant", "update",
                           [userId |-> user.id, experimentKey |-> key, variant |-> variant])
         IN  SaveEach(user, Tail(exps), splits,
                      [list |-> SavedList(st.list, user.id, key, variant),
                       queue |-> q,
                       nextId |-> st.nextId + 1,
                       failures |-> Append(st.failures, 0),
                       procs |-> Spawn(st.procs, Launch(<<"variant">>, q, online)),
                       log |-> Append(st.log, Event("save", key, variant))])

\* updateUser(user, {reassignVariant}): userService.updateUser, then, with
\* reassignVariant, the remote getExperiments is awaited
UpdateUserWithReassignVariants(user, reassignVariant) ==
    /\ MayCall
    /\ MayGetUser
    /\ MayAwait
    /\ refreshes' = RefreshesAfterGetUser
    /\ calls' = calls + 1
    /\ \E outcome \in {UpdateUserOutcome(ab_user, user)} :
         IF outcome = "ok"
         THEN /\ MaySpawn
              /\ ab_user' = user
              /\ ab_user_timestamp' = Stamp(now)
              /\ EnqueueAndProcess("user", "update", user)
              /\ UNCHANGED <<ab_variants, ab_variants_timestamp>>
              /\ IF reassignVariant
                 THEN /\ tasks' = tasks (+) SetToBag({[NewTask("reassign", user, <<>>, Null)
                                                         EXCEPT !.pc = "experiments"]})
                      /\ UNCHANGED ret
                 ELSE /\ ret' = Returned("updateUserWithReassignVariants",
                                         [arg |-> user, reassignVariant |-> FALSE, result |-> "ok",
                                          exps |-> <<>>, before |-> ab_variants.list,
                                          fetched |-> <<>>, log |-> <<>>])
                      /\ UNCHANGED tasks
         ELSE /\ ret' = Returned("updateUserWithReassignVariants",
                                 [arg |-> user, reassignVariant |-> reassignVariant,
                                  result |-> outcome, exps |-> <<>>, before |-> ab_variants.list,
                                  fetched |-> <<>>, log |-> <<>>])
              /\ UNCHANGED <<storeVars, queueVars, tasks>>
    /\ UNCHANGED <<now, rawItem, libVars, online, remoteVars>>

\* getExperiments() of the reassignment t is answered with the list exps:
\* with an empty list the call returns; otherwise the variant cache is
\* removed, every experiment gets the variant assigned to the updated
\* identity and saved, getVariantsByUserId is served by the cache just written
\* and stamped, and the list it returns is written to 'ab_variants'
ReassignAnswered(t, exps, splits) ==
    /\ t.op = "reassign" /\ t.pc = "experiments"
    /\ BagCardinality(procs) + Len(exps) <= MaxProcs
    /\ tasks' = tasks (-) SetToBag({t})
    /\ IF exps = <<>>
       THEN /\ ret' = Returned("updateUserWithReassignVariants",
                               [arg |-> t.user, reassignVariant |-> TRUE, result |-> "ok",
                                exps |-> exps, before |-> ab_variants.list,
                                fetched |-> <<>>, log |-> <<>>])
            /\ UNCHANGED <<ab_variants, ab_variants_timestamp, queueVars>>
       ELSE \E st \in {SaveEach(t.user, exps, splits,
                                [list |-> CacheAfterRemove(ab_variants).list,
                                 queue |-> ab_sync_queue, nextId |-> nextOpId,
                                 failures |-> failures, procs |-> procs,
                                 log |-> <<Event("remove", Null, Null)>>])} :
               /\ ab_variants' = Stored(st.list)
               /\ ab_variants_timestamp' = Stamp(now)
               /\ ab_sync_queue' = st.queue
               /\ nextOpId' = st.nextId
               /\ failures' = st.failures
               /\ procs' = st.procs
               /\ syncHandlers' = syncHandlers
               /\ ret' = Returned("updateUserWithReassignVariants",
                                  [arg |-> t.user, reassignVariant |-> TRUE, result |-> "ok",
                                   exps |-> exps, splits |-> splits,
                                   before |-> ab_variants.list, fetched |-> st.list,
                                   log |-> st.log \o <<Event("getVariants", Null, "local"),
                                                       Event("setItem", Null, Null)>>])
    /\ UNCHANGED <<now, rawItem, libVars, online, ab_user, ab_user_timestamp, remoteVars,
                   refreshes, calls>>

\* getExperiments() of the reassignment t fails: the call rejects
ReassignFails(t) ==
    /\ t.op = "reassign" /\ t.pc = "experiments"
    /\ tasks' = tasks (-) SetToBag({t})
    /\ ret' = Returned("updateUserWithReassignVariants",
                       [arg |-> t.user, reassignVariant |-> TRUE, result |-> "GetExperimentsError",
                        exps |-> <<>>, before |-> ab_variants.list, fetched |-> <<>>, log |-> <<>>])
    /\ UNCHANGED <<now, rawItem, libVars, online, storeVars, remoteVars, queueVars, refreshes, calls>>

NextReassign ==
    \/ \E user \in Identities, reassignVariant \in BOOLEAN :
          UpdateUserWithReassignVariants(user, reassignVariant)
    \/ \E t \in Awaiting, exps \in ExperimentLists, splits \in SplitSets :
          ReassignAnswered(t, exps, splits)
    \/ \E t \in Awaiting : ReassignFails(t)
    \/ \E p \in Running : SyncSucceeds(p)
    \/ \E p \in Running : SyncFails(p)

SpecReassign == InitLoaded /\ [][NextReassign]_vars

\* the step in which updateUser of the library returns
ReassignReturns == ret'.n # ret.n /\ ret'.op = "updateUserWithReassignVariants"

\* the 'variant' records of the queue
VariantRecords(q) == GetByType(q, "variant")

\* C31: updateUser of the library.  Without reassignVariant no experiment is
\* fetched and no variant is saved: the call returns at once, with the variant
\* cache, its timestamp and the 'variant' records of the queue as they were.
\* With reassignVariant and a non-empty experiment list the variant cache is
\* removed first, then saveUserVariantForExperiment is called exactly once per
\* experiment, in the order of the list, with the variant the assigner gives
\* the updated identity, then getVariantsByUserId is called and the list it
\* returned is written: the cache ends as that list, and no entry of the
\* earlier cache for an experiment outside the list is left.
C31_ReassignSequence ==
    [][ReassignReturns =>
          /\ ~ret'.reassignVariant
                => /\ UNCHANGED <<tasks, ab_variants, ab_variants_timestamp>>
                   /\ VariantRecords(ab_sync_queue') = VariantRecords(ab_sync_queue)
          /\ (ret'.reassignVariant /\ ret'.result = "ok" /\ ret'.exps # <<>>)
                => /\ Len(ret'.log) = Len(ret'.exps) + 3
                   /\ ret'.log[1] = Event("remove", Null, Null)
                   /\ \A j \in 1..Len(ret'.exps) :
                         ret'.log[j + 1] = Event("save", ret'.exps[j],
                                                 AssignTableFor[ret'.splits][ret'.arg, ret'.exps[j]])
                   /\ ret'.log[Len(ret'.exps) + 2].e = "getVariants"
                   /\ ret'.log[Len(ret'.exps) + 3].e = "setItem"
                   /\ Len(VariantRecords(ab_sync_queue'))
                         = Len(VariantRecords(ab_sync_queue)) + Len(ret'.exps)
                   /\ ab_variants' = Stored(ret'.fetched)
                   /\ \A k \in 1..Len(ab_variants.list) :
                         (\A j \in 1..Len(ret'.exps) :
                             ret'.exps[j] # ab_variants.list[k].experiment_key)
                            => FindByKey(ab_variants'.list, ab_variants.list[k].experiment_key) = 0
       ]_vars

\* a reassignment for the experiment e2 alone returned for the identity with
\* its new email, the earlier cache having held an entry of e1
C31_Witness ==
    /\ ret.op = "updateUserWithReassignVariants" /\ ret.reassignVariant /\ ret.result = "ok"
    /\ ret.arg = [id |-> "u1", email |-> "f@x"]
    /\ ret.exps = <<"e2">>
    /\ FindByKey(ret.before, "e1") > 0
    /\ Len(ab_variants.list) = 1 /\ ab_variants.list[1].experiment_key = "e2"

====
